---- MODULE Spec2Model ----
(***************************************************************************)
(* Model of the retrieval-and-grounding engine of api/agent_2.py           *)
(* (LegislativeAgent): keyword extraction, two-phase scoring, snippet      *)
(* extraction, commission disambiguation, prompt assembly and the ask      *)
(* orchestrator.                                                           *)
(*                                                                         *)
(* A Python str is a sequence of one-character strings; positions are      *)
(* 1-based here (Python position p is position p+1).  Code points that the *)
(* TLA+ lexer rejects are written "U+XXXX" and still count as one          *)
(* character.                                                              *)
(***************************************************************************)
EXTENDS Integers, Sequences, FiniteSets

VARIABLES
    api_key,        \* LegislativeAgent.api_key
    USING_NEW_API,  \* module flag: the google-genai import succeeded
    ready,          \* LegislativeAgent.ready
    repo,           \* the content root: "dir", "missing" or "unreadable"
    files,          \* path -> text of the file, or UNREADABLE
    docs,           \* LegislativeAgent.docs, the catalog
    st,             \* position of the running ask (orchestrator state)
    question,       \* argument of the running ask
    words,          \* _retrieve: keyword list used by scoring and snippets
    commission_filter, \* _retrieve: detected commission, or NONE
    candidates,     \* _retrieve: phase-1 shortlist
    retrieved,      \* ask: results of _retrieve (DocRef, snippets, score)
    searched_commissions, \* ask: second component of _retrieve's result
    prompt,         \* ask: text handed to the generator
    ret,            \* value returned by ask, or NONE while running
    raised,         \* TRUE iff ask propagated an exception to its caller
    hist,           \* orchestrator states the running ask went through
    reads,          \* _read_text calls made by the running ask
    scans,          \* catalog iterations made by the running ask
    genCalls,       \* generate_content calls made by the running ask
    gen,            \* outcome of the generate_content call of the running ask
    fnIn,           \* argument record of a pure function under test
    fnOut           \* <<result>> once it has returned, <<>> before

vars == <<api_key, USING_NEW_API, ready, repo, files, docs, st, question, words,
          commission_filter, candidates, retrieved, searched_commissions, prompt,
          ret, raised, hist, reads, scans, genCalls, gen, fnIn, fnOut>>

\* sentinels: no str of the program is one of these one-element sequences
NONE == <<"<None>">>
UNREADABLE == <<"<IOError>">>

(***************************************************************************)
(* Program constants.                                                      *)
(***************************************************************************)
MIN_WORD_LEN == 3
SCORE_CAP == 30
MAX_SNIPPETS == 6
RADIUS == 280
HITS_FACTOR == 3
HEAD_CHARS == 8000
MAX_CHARS == 250000
K_DOCS == 6
PATH_HIT == 3
NUM_BONUS == 8
MIN_NUM_LEN == 2
MAX_CANDIDATES == 60
MAX_COMMS_SHOWN == 12
MIN_PARTS == 4
PROMPT_SNIPPETS == 6

(***************************************************************************)
(* Fixed strings of the program.                                           *)
(***************************************************************************)
NOT_CONFIGURED_MSG ==
    <<"⚠","U+FE0F"," ","G","e","m","i","n","i"," ","n","o"," ","e","s","t","á"," ","c","o","n",
      "f","i","g","u","r","a","d","o","."," ","R","e","v","i","s","a"," ","G","E","M","I","N",
      "I","_","A","P","I","_","K","E","Y"," ","y"," ","r","e","q","u","i","r","e","m","e","n",
      "t","s"," ","(","g","o","o","g","l","e","-","g","e","n","a","i",")",".">>

NO_EVIDENCE_HEAD ==
    <<"U+1F50D"," ","N","o"," ","e","n","c","o","n","t","r","é"," ","e","v","i","d","e","n","c",
      "i","a"," ","e","n"," ","l","o","s"," ","d","o","c","u","m","e","n","t","o","s"," ","d",
      "i","s","p","o","n","i","b","l","e","s"," ","p","a","r","a"," ","r","e","s","p","o","n",
      "d","e","r",".","\n","\n","C","o","m","i","s","i","o","n","e","s"," ","r","e","v","i","s",
      "a","d","a","s"," ","(","m","u","e","s","t","r","a",")",":"," ">>

NO_EVIDENCE_TAIL ==
    <<"\n","T","i","p",":"," ","p","r","u","e","b","a"," ","m","e","n","c","i","o","n","a","r",
      " ","l","a"," ","c","o","m","i","s","i","ó","n"," ","e","x","a","c","t","a"," ","o"," ",
      "e","l"," ","I","D"," ","d","e"," ","s","e","s","i","ó","n"," ","(","p","o","r"," ","e",
      "j","e","m","p","l","o"," ","1","7","3",")"," ","y"," ","e","l"," ","t","e","m","a",".">>

ERROR_PREFIX ==
    <<"U+274C"," ","E","r","r","o","r"," ","G","e","m","i","n","i",":"," ">>

HINT_WORDS ==
    <<" ","s","e","s","i","ó","n"," ","c","o","m","i","s","i","ó","n">>

PROMPT_HEAD ==
    <<"P","R","E","G","U","N","T","A"," ","D","E","L"," ","U","S","U","A","R","I","O",":","\n">>

PROMPT_SOURCES ==
    <<"\n","\n","F","U","E","N","T","E","S"," ","(","u","s","a"," ","S","O","L","O"," ","e","s",
      "t","o",")",":","\n">>

PROMPT_INSTRUCTIONS ==
    <<"\n","\n","I","N","S","T","R","U","C","C","I","O","N","E","S",":","\n","-"," ","R","e",
      "s","p","o","n","d","e"," ","e","n"," ","e","s","p","a","ñ","o","l",","," ","d","i","r",
      "e","c","t","o"," ","y"," ","c","o","n"," ","v","i","ñ","e","t","a","s"," ","s","i"," ",
      "a","y","u","d","a",".","\n","-"," ","C","i","t","a"," ","f","u","e","n","t","e","s"," ",
      "e","n"," ","f","o","r","m","a","t","o",":"," ","F","u","e","n","t","e",":"," ","<","D",
      "O","C","U","M","E","N","T","O",">"," ","(","C","o","m","i","s","i","ó","n"," ","<","X",
      ">",")","."," ","\n","-"," ","S","i"," ","f","a","l","t","a"," ","u","n"," ","d","a","t",
      "o"," ","e","s","p","e","c","í","f","i","c","o",","," ","d","i","l","o"," ","y"," ","s",
      "u","g","i","e","r","e"," ","q","u","é"," ","b","u","s","c","a","r",".","\n">>

HDR_DOCUMENTO ==
    <<"D","O","C","U","M","E","N","T","O",":"," ">>

HDR_COMISION ==
    <<".","t","x","t"," ","|"," ","C","O","M","I","S","I","Ó","N",":"," ">>

HDR_GRUPO ==
    <<" ","|"," ","G","R","U","P","O",":"," ">>

HDR_SCORE ==
    <<" ","|"," ","S","C","O","R","E",":"," ">>

NA ==
    <<"N","/","A">>

COMMA_SP ==
    <<","," ">>

BULLET ==
    <<"\n","-"," ">>

BLANK_LINE ==
    <<"\n","\n">>

stop ==
    { <<"q","u","e">>,
      <<"q","u","é">>,
      <<"c","u","a","l">>,
      <<"c","u","á","l">>,
      <<"c","o","m","o">>,
      <<"c","ó","m","o">>,
      <<"p","a","r","a">>,
      <<"p","o","r">>,
      <<"c","o","n">>,
      <<"s","i","n">>,
      <<"u","n","a">>,
      <<"u","n","o">>,
      <<"u","n","o","s">>,
      <<"u","n","a","s">>,
      <<"d","e","l">>,
      <<"d","e">>,
      <<"l","a">>,
      <<"e","l">>,
      <<"l","o","s">>,
      <<"l","a","s">>,
      <<"y">>,
      <<"o">>,
      <<"a">>,
      <<"e","n">>,
      <<"a","l">>,
      <<"u","n">>,
      <<"e","s">>,
      <<"s","e">>,
      <<"s","u">>,
      <<"s","u","s">> }

(***************************************************************************)
(* Characters and str methods.                                             *)
(***************************************************************************)
ASCII_LOWER ==
    {"a","b","c","d","e","f","g","h","i","j","k","l","m","n","o","p","q","r","s","t","u",
     "v","w","x","y","z"}
DIGITS == {"0","1","2","3","4","5","6","7","8","9"}
SPANISH_LOWER == {"á","é","í","ó","ú","ñ"}
UPPER ==
    <<"A","B","C","D","E","F","G","H","I","J","K","L","M","N","O","P","Q","R","S","T","U",
      "V","W","X","Y","Z","Á","É","Í","Ó","Ú","Ñ">>
LOWER ==
    <<"a","b","c","d","e","f","g","h","i","j","k","l","m","n","o","p","q","r","s","t","u",
      "v","w","x","y","z","á","é","í","ó","ú","ñ">>
\* str.strip() and str.isspace(): the whitespace characters
WHITESPACE == {" ", "\n", "\t", "\r"}
\* the regex class [a-záéíóúñ0-9\-] of _keywords
KEYWORD_CHARS == ASCII_LOWER \cup SPANISH_LOWER \cup DIGITS \cup {"-"}
\* the regex class \w (used by \b)
WORD_CHARS == {UPPER[i] : i \in DOMAIN UPPER} \cup {LOWER[i] : i \in DOMAIN LOWER}
              \cup DIGITS \cup {"_", "U+0130"}
\* characters in increasing code point order (for sorted() on str)
CODEPOINT_ORDER ==
    <<"\t","\n","\r"," ","\"","(",")",",","-",".","/","0","1","2","3","4","5","6","7","8",
      "9",":","<",">","?","A","B","C","D","E","F","G","H","I","J","K","L","M","N","O","P",
      "Q","R","S","T","U","V","W","X","Y","Z","_","a","b","c","d","e","f","g","h","i","j",
      "k","l","m","n","o","p","q","r","s","t","u","v","w","x","y","z","|","¿","Á","É","Í",
      "Ñ","Ó","Ú","á","é","í","ñ","ó","ú","U+0130","U+0307","⚠","U+274C","U+FE0F","U+1F50D">>

Min(a, b) == IF a <= b THEN a ELSE b
Max(a, b) == IF a >= b THEN a ELSE b

ord(c) == CHOOSE i \in DOMAIN CODEPOINT_ORDER : CODEPOINT_ORDER[i] = c

LowerChar(c) ==
    IF \E i \in DOMAIN UPPER : UPPER[i] = c
    THEN LOWER[CHOOSE i \in DOMAIN UPPER : UPPER[i] = c]
    ELSE c

\* str.lower() of one character: every character lowers to one character, except
\* U+0130 (capital I with dot above), which lowers to the two characters i, U+0307
LowerChars(c) == IF c = "U+0130" THEN <<"i", "U+0307">> ELSE <<LowerChar(c)>>

RECURSIVE lower_expand(_)
lower_expand(s) ==
    IF Len(s) = 0 THEN <<>>
    ELSE IF Len(s) = 1 THEN LowerChars(s[1])
    ELSE LET h == Len(s) \div 2
         IN  lower_expand(SubSeq(s, 1, h)) \o lower_expand(SubSeq(s, h + 1, Len(s)))

\* str.lower(): the concatenation of the lowered characters
lower(s) ==
    IF \E i \in DOMAIN s : s[i] = "U+0130" THEN lower_expand(s)
    ELSE [i \in 1..Len(s) |-> LowerChar(s[i])]

\* str.lstrip(): from the first character that is not whitespace
lstrip(s) ==
    IF \A i \in DOMAIN s : s[i] \in WHITESPACE THEN <<>>
    ELSE SubSeq(s, CHOOSE i \in DOMAIN s :
                      s[i] \notin WHITESPACE /\ \A j \in 1..(i - 1) : s[j] \in WHITESPACE,
                Len(s))

\* str.rstrip(): up to the last character that is not whitespace
rstrip(s) ==
    IF \A i \in DOMAIN s : s[i] \in WHITESPACE THEN <<>>
    ELSE SubSeq(s, 1, CHOOSE i \in DOMAIN s :
                         s[i] \notin WHITESPACE /\ \A j \in (i + 1)..Len(s) : s[j] \in WHITESPACE)

\* str.strip()
strip(s) == rstrip(lstrip(s))

\* str.replace("\n", " ")
replace_newlines(s) == [i \in 1..Len(s) |-> IF s[i] = "\n" THEN " " ELSE s[i]]

\* s[a:b] for 0 <= a, b (Python slice, 0-based, end exclusive)
slice(s, a, b) == SubSeq(s, a + 1, Min(b, Len(s)))

\* w occurs in s at (1-based) position i
StartsAt(s, w, i) ==
    /\ i >= 1
    /\ i + Len(w) - 1 <= Len(s)
    /\ \A k \in 1..Len(w) : s[i + k - 1] = w[k]

\* w in s
Contains(s, w) == \E i \in 1..(Len(s) - Len(w) + 1) : StartsAt(s, w, i)

\* some occurrence of w in s starts at position i or later
MatchFrom(s, w, i) == \E j \in i..(Len(s) - Len(w) + 1) : StartsAt(s, w, j)

\* the position of the first of them
NextMatch(s, w, i) ==
    CHOOSE j \in i..(Len(s) - Len(w) + 1) :
        StartsAt(s, w, j) /\ \A k \in i..(j - 1) : ~StartsAt(s, w, k)

\* re.finditer(re.escape(w), s): 0-based starts of the non-overlapping matches,
\* the scan resuming at the end of each match
RECURSIVE finditer_from(_, _, _)
finditer_from(s, w, i) ==
    IF ~MatchFrom(s, w, i) THEN <<>>
    ELSE LET m == NextMatch(s, w, i)
         IN  <<m - 1>> \o finditer_from(s, w, m + Max(Len(w), 1))

finditer(s, w) == finditer_from(s, w, 1)

\* str.count(w): number of non-overlapping occurrences, scanning left to right
RECURSIVE count_from(_, _, _)
count_from(s, w, i) ==
    IF ~MatchFrom(s, w, i) THEN 0
    ELSE 1 + count_from(s, w, NextMatch(s, w, i) + Len(w))

count(s, w) == IF w = <<>> THEN Len(s) + 1 ELSE count_from(s, w, 1)

\* a < b on str (lexicographic by code point)
RECURSIVE str_lt(_, _)
str_lt(a, b) ==
    IF b = <<>> THEN FALSE
    ELSE IF a = <<>> THEN TRUE
    ELSE IF Head(a) = Head(b) THEN str_lt(Tail(a), Tail(b))
    ELSE ord(Head(a)) < ord(Head(b))

\* sorted(S) for a set S of str
RECURSIVE sorted(_)
sorted(S) ==
    IF S = {} THEN <<>>
    ELSE LET m == CHOOSE x \in S : \A y \in S \ {x} : str_lt(x, y)
         IN  <<m>> \o sorted(S \ {m})

\* sep.join(parts)
RECURSIVE join(_, _)
join(sep, parts) ==
    IF parts = <<>> THEN <<>>
    ELSE IF Len(parts) = 1 THEN parts[1]
    ELSE parts[1] \o sep \o join(sep, Tail(parts))

\* str(n) for an int n >= 0
DIGIT_CHARS == <<"0","1","2","3","4","5","6","7","8","9">>
RECURSIVE str_int(_)
str_int(n) ==
    IF n < 10 THEN <<DIGIT_CHARS[n + 1]>>
    ELSE str_int(n \div 10) \o <<DIGIT_CHARS[(n % 10) + 1]>>

\* variant: an unstable sort, an element goes before the elements of equal key
RECURSIVE insert_sorted_unstable(_, _, _)
insert_sorted_unstable(done, x, reverse) ==
    IF done = <<>> THEN <<x>>
    ELSE IF (reverse /\ Head(done)[1] > x[1]) \/ (~reverse /\ Head(done)[1] < x[1])
         THEN <<Head(done)>> \o insert_sorted_unstable(Tail(done), x, reverse)
         ELSE <<x>> \o done

\* list.sort(key=lambda x: x[0], reverse=reverse): stable, key is component 1
RECURSIVE insert_sorted(_, _, _)
insert_sorted(done, x, reverse) ==
    IF done = <<>> THEN <<x>>
    ELSE IF (reverse /\ Head(done)[1] >= x[1]) \/ (~reverse /\ Head(done)[1] <= x[1])
         THEN <<Head(done)>> \o insert_sorted(Tail(done), x, reverse)
         ELSE <<x>> \o done

RECURSIVE sort_from(_, _, _, _)
sort_from(xs, k, done, reverse) ==
    IF k > Len(xs) THEN done
    ELSE sort_from(xs, k + 1, insert_sorted(done, xs[k], reverse), reverse)

list_sort(xs, reverse) == sort_from(xs, 1, <<>>, reverse)

\* length of the run of characters of class cls that starts at position i
RECURSIVE RunLen(_, _, _)
RunLen(s, i, cls) ==
    IF i <= Len(s) /\ s[i] \in cls THEN 1 + RunLen(s, i + 1, cls) ELSE 0

(***************************************************************************)
(* Module-level functions of api/agent_2.py.                               *)
(***************************************************************************)
\* open(path).read(max_chars): the text, or UNREADABLE when open/read raises
open_read(fs, path, max_chars) ==
    IF fs[path] = UNREADABLE THEN UNREADABLE ELSE slice(fs[path], 0, max_chars)

\* variant: the try/except of _read_text is missing, the error reaches the caller
_read_text_uncaught(fs, path) == open_read(fs, path, MAX_CHARS)

_read_text(fs, path) ==
    LET r == open_read(fs, path, MAX_CHARS)
    IN  IF r = UNREADABLE THEN <<>> ELSE r

_normalize(s) == lower(strip(s))

\* re.findall(r"[a-záéíóúñ0-9\-]{3,}", s): the engine tries each position in turn;
\* a greedy match takes the whole run and the scan resumes after it
RECURSIVE findall_words(_, _)
findall_words(s, i) ==
    IF i > Len(s) THEN <<>>
    ELSE LET n == RunLen(s, i, KEYWORD_CHARS)
         IN  IF n >= MIN_WORD_LEN
             THEN <<SubSeq(s, i, i + n - 1)>> \o findall_words(s, i + n)
             ELSE findall_words(s, i + 1)

\* variant: the question is not lower-cased before the scan
_keywords_no_lower(q) == SelectSeq(findall_words(q, 1), LAMBDA w : w \notin stop)

_keywords(q) == SelectSeq(findall_words(lower(q), 1), LAMBDA w : w \notin stop)

\* variant: the per-word cap is missing
RECURSIVE score_loop_no_cap(_, _, _, _)
score_loop_no_cap(ws, t, k, score) ==
    IF k > Len(ws) THEN score
    ELSE IF Len(ws[k]) < MIN_WORD_LEN THEN score_loop_no_cap(ws, t, k + 1, score)
    ELSE score_loop_no_cap(ws, t, k + 1, score + count(t, ws[k]))

RECURSIVE score_loop(_, _, _, _)
score_loop(ws, t, k, score) ==
    IF k > Len(ws) THEN score
    ELSE IF Len(ws[k]) < MIN_WORD_LEN THEN score_loop(ws, t, k + 1, score)
    ELSE LET c == count(t, ws[k])
         IN  score_loop(ws, t, k + 1, IF c # 0 THEN score + Min(c, SCORE_CAP) ELSE score)

_score_keywords(ws, text) ==
    IF ws = <<>> \/ text = <<>> THEN 0 ELSE score_loop(ws, lower(text), 1, 0)

\* variant: the window reaches a keyword length too far to the right
RECURSIVE hits_of_word_wide(_, _, _, _, _, _, _)
hits_of_word_wide(text, w, ms, j, hits, max_snippets, radius) ==
    IF j > Len(ms) THEN hits
    ELSE LET start == Max(0, ms[j] - radius)
             end == Min(Len(text), ms[j] + Len(w) + Len(w) + radius)
             snippet == strip(replace_newlines(slice(text, start, end)))
             hits2 == Append(hits, <<ms[j], snippet>>)
         IN  IF Len(hits2) >= max_snippets * HITS_FACTOR THEN hits2
             ELSE hits_of_word_wide(text, w, ms, j + 1, hits2, max_snippets, radius)

\* variant: the inner loop does not stop at max_snippets * 3 hits
RECURSIVE hits_of_word_no_cap(_, _, _, _, _, _, _)
hits_of_word_no_cap(text, w, ms, j, hits, max_snippets, radius) ==
    IF j > Len(ms) THEN hits
    ELSE LET start == Max(0, ms[j] - radius)
             end == Min(Len(text), ms[j] + Len(w) + radius)
             snippet == strip(replace_newlines(slice(text, start, end)))
         IN  hits_of_word_no_cap(text, w, ms, j + 1, Append(hits, <<ms[j], snippet>>),
                                 max_snippets, radius)

\* the inner loop of _extract_snippets over the matches ms of word w
RECURSIVE hits_of_word(_, _, _, _, _, _, _)
hits_of_word(text, w, ms, j, hits, max_snippets, radius) ==
    IF j > Len(ms) THEN hits
    ELSE LET start == Max(0, ms[j] - radius)
             end == Min(Len(text), ms[j] + Len(w) + radius)
             snippet == strip(replace_newlines(slice(text, start, end)))
             hits2 == Append(hits, <<ms[j], snippet>>)
         IN  IF Len(hits2) >= max_snippets * HITS_FACTOR THEN hits2
             ELSE hits_of_word(text, w, ms, j + 1, hits2, max_snippets, radius)

\* the outer loop of _extract_snippets over the words
RECURSIVE collect_hits(_, _, _, _, _, _)
collect_hits(text, ws, k, hits, max_snippets, radius) ==
    IF k > Len(ws) THEN hits
    ELSE IF Len(ws[k]) < MIN_WORD_LEN
         THEN collect_hits(text, ws, k + 1, hits, max_snippets, radius)
    ELSE LET hits2 == hits_of_word(text, ws[k], finditer(lower(text), ws[k]), 1, hits,
                                   max_snippets, radius)
         IN  IF Len(hits2) >= max_snippets * HITS_FACTOR THEN hits2
             ELSE collect_hits(text, ws, k + 1, hits2, max_snippets, radius)

\* variant: every non-empty captured window is kept
RECURSIVE uniq_loop_no_dedupe(_, _, _, _)
uniq_loop_no_dedupe(hits, j, uniq, max_snippets) ==
    IF j > Len(hits) THEN uniq
    ELSE LET sn == hits[j][2]
             uniq2 == IF sn # <<>> THEN Append(uniq, sn) ELSE uniq
         IN  IF Len(uniq2) >= max_snippets THEN uniq2
             ELSE uniq_loop_no_dedupe(hits, j + 1, uniq2, max_snippets)

\* the deduplication loop of _extract_snippets
RECURSIVE uniq_loop(_, _, _, _)
uniq_loop(hits, j, uniq, max_snippets) ==
    IF j > Len(hits) THEN uniq
    ELSE LET sn == hits[j][2]
             uniq2 == IF sn # <<>> /\ \A i \in DOMAIN uniq : ~Contains(uniq[i], sn)
                      THEN Append(uniq, sn) ELSE uniq
         IN  IF Len(uniq2) >= max_snippets THEN uniq2
             ELSE uniq_loop(hits, j + 1, uniq2, max_snippets)

_extract_snippets(text, ws, max_snippets, radius) ==
    IF text = <<>> THEN <<>>
    ELSE LET hits == list_sort(collect_hits(text, ws, 1, <<>>, max_snippets, radius), FALSE)
             uniq == uniq_loop(hits, 1, <<>>, max_snippets)
             head == strip(replace_newlines(slice(text, 0, HEAD_CHARS)))
         IN  IF uniq # <<>> THEN uniq
             ELSE IF head # <<>> THEN <<head>> ELSE <<>>

(***************************************************************************)
(* DocRef and LegislativeAgent._build_index.  A path is the sequence of    *)
(* its components relative to the content root.                            *)
(***************************************************************************)
DocRef(path, group, commission, sid) ==
    [path |-> path, group |-> group, commission |-> commission, sid |-> sid]

\* os.path.splitext(name)[0]: cut at the last dot, unless only dots precede it
splitext_root(name) ==
    LET dots == {i \in DOMAIN name : name[i] = "."}
        last == CHOOSE i \in dots : \A j \in dots : j <= i
    IN  IF dots = {} \/ (\A j \in 1..(last - 1) : name[j] = ".") THEN name
        ELSE SubSeq(name, 1, last - 1)

RECURSIVE index_refs(_, _)
index_refs(paths, k) ==
    IF k > Len(paths) THEN <<>>
    ELSE LET parts == paths[k]
         IN  IF Len(parts) < MIN_PARTS THEN index_refs(paths, k + 1)
             ELSE <<DocRef(parts, parts[1], parts[2], splitext_root(parts[Len(parts)]))>>
                  \o index_refs(paths, k + 1)

\* uniq[d.path] = d over out, then list(uniq.values()): a path keeps the place of its
\* first occurrence and the value of its last
RECURSIVE dedupe(_, _, _)
dedupe(out, k, uniq) ==
    IF k > Len(out) THEN uniq
    ELSE IF \E i \in DOMAIN uniq : uniq[i].path = out[k].path
         THEN dedupe(out, k + 1,
                     [i \in DOMAIN uniq |->
                         IF uniq[i].path = out[k].path THEN out[k] ELSE uniq[i]])
         ELSE dedupe(out, k + 1, Append(uniq, out[k]))

\* paths: the concatenated results of the two glob patterns.  A root that is not a
\* directory (or not set) returns at line 127; glob lists nothing under a directory
\* it cannot read.
_build_index(repo_state, paths) ==
    IF repo_state = "missing" THEN <<>>
    ELSE dedupe(index_refs(paths, 1), 1, <<>>)

(***************************************************************************)
(* LegislativeAgent._detect_commission_filter and _retrieve.               *)
(***************************************************************************)
\* variant: the lower-cased name that matched is returned
_detect_commission_filter_lowered(q, ds) ==
    LET qn == _normalize(q)
        comms == {ds[i].commission : i \in DOMAIN ds}
        matches == {lower(c) : c \in {m \in comms : m # <<>> /\ Contains(qn, lower(m))}}
    IN  IF qn = <<>> \/ matches = {} THEN {NONE} ELSE matches
\* variant: the commission name is compared without lower-casing it
_detect_commission_filter_cased(q, ds) ==
    LET qn == _normalize(q)
        comms == {ds[i].commission : i \in DOMAIN ds}
        matches == {c \in comms : c # <<>> /\ Contains(qn, c)}
    IN  IF qn = <<>> \/ matches = {} THEN {NONE} ELSE matches
\* The for loop runs over a Python set of str, whose iteration order is not fixed
\* (hash randomisation): the result is any one of the matching names.  This is the
\* set of values the call can return.
_detect_commission_filter(q, ds) ==
    LET qn == _normalize(q)
        comms == {ds[i].commission : i \in DOMAIN ds}
        matches == {c \in comms : c # <<>> /\ Contains(qn, lower(c))}
    IN  IF qn = <<>> \/ matches = {} THEN {NONE} ELSE matches

\* re.findall(r"\b\d{2,}\b", s): a whole run of digits, at least 2 long, with a
\* \w/\W boundary on both sides (a shorter greedy match ends between two digits,
\* where \b fails)
IsWordAt(s, i) == i >= 1 /\ i <= Len(s) /\ s[i] \in WORD_CHARS
WordBoundary(s, i) == IsWordAt(s, i - 1) # IsWordAt(s, i)

RECURSIVE findall_nums(_, _)
findall_nums(s, i) ==
    IF i > Len(s) THEN <<>>
    ELSE LET n == RunLen(s, i, DIGITS)
         IN  IF n >= MIN_NUM_LEN /\ WordBoundary(s, i) /\ WordBoundary(s, i + n)
             THEN <<SubSeq(s, i, i + n - 1)>> \o findall_nums(s, i + n)
             ELSE findall_nums(s, i + 1)

SPACE == <<" ">>

RECURSIVE path_hits(_, _, _, _)
path_hits(ws, ptxt, k, s) ==
    IF k > Len(ws) THEN s
    ELSE path_hits(ws, ptxt, k + 1, IF Contains(ptxt, ws[k]) THEN s + PATH_HIT ELSE s)

\* variant: the bonus is added for every number of the question found in the sid
path_score_bonus_per_number(d, ws, qn) ==
    LET ptxt == lower(d.group \o SPACE \o d.commission \o SPACE \o d.sid)
        nums == findall_nums(qn, 1)
        s == path_hits(ws, ptxt, 1, 0)
    IN  s + NUM_BONUS * Cardinality({i \in DOMAIN nums : Contains(d.sid, nums[i])})
\* phase 1: the score of one pool document
path_score(d, ws, qn) ==
    LET ptxt == lower(d.group \o SPACE \o d.commission \o SPACE \o d.sid)
        nums == findall_nums(qn, 1)
        s == path_hits(ws, ptxt, 1, 0)
    IN  IF nums # <<>> /\ \E i \in DOMAIN nums : Contains(d.sid, nums[i])
        THEN s + NUM_BONUS ELSE s

\* variant: the documents scoring 0 are kept in prelim
RECURSIVE prelim_loop_keep_zero(_, _, _, _)
prelim_loop_keep_zero(pool, ws, qn, k) ==
    IF k > Len(pool) THEN <<>>
    ELSE <<<<path_score(pool[k], ws, qn), pool[k]>>>>
         \o prelim_loop_keep_zero(pool, ws, qn, k + 1)

RECURSIVE prelim_loop(_, _, _, _)
prelim_loop(pool, ws, qn, k) ==
    IF k > Len(pool) THEN <<>>
    ELSE LET s == path_score(pool[k], ws, qn)
         IN  (IF s # 0 THEN <<<<s, pool[k]>>>> ELSE <<>>) \o prelim_loop(pool, ws, qn, k + 1)

\* variant: no second extraction with the hint words
retrieve_words_no_fallback(q) == _keywords(q)

retrieve_words(q) ==
    IF _keywords(q) = <<>> THEN _keywords(q \o HINT_WORDS) ELSE _keywords(q)

\* variant: the pool is the whole catalog, whatever the filter
retrieve_pool_unfiltered(ds, cf) == ds

retrieve_pool(ds, cf) ==
    SelectSeq(ds, LAMBDA d : cf = NONE \/ cf = <<>> \/ d.commission = cf)

\* variant: the ranked list is not cut to its first 60 entries
retrieve_candidates_no_cut(pool, ws, qn) ==
    LET prelim == prelim_loop(pool, ws, qn, 1)
        ranked == list_sort(prelim, TRUE)
    IN  IF prelim # <<>>
        THEN [i \in 1..Len(ranked) |-> ranked[i][2]]
        ELSE slice(pool, 0, MAX_CANDIDATES)

retrieve_candidates(pool, ws, qn) ==
    LET prelim == prelim_loop(pool, ws, qn, 1)
        ranked == list_sort(prelim, TRUE)
    IN  IF prelim # <<>>
        THEN [i \in 1..Min(MAX_CANDIDATES, Len(ranked)) |-> ranked[i][2]]
        ELSE slice(pool, 0, MAX_CANDIDATES)

\* variant: candidates scoring 0 are kept
RECURSIVE scored_loop_keep_zero(_, _, _, _)
scored_loop_keep_zero(fs, cands, ws, k) ==
    IF k > Len(cands) THEN <<>>
    ELSE LET txt == _read_text(fs, cands[k].path)
         IN  <<<<_score_keywords(ws, txt), cands[k], txt>>>>
             \o scored_loop_keep_zero(fs, cands, ws, k + 1)

\* phase 2: (score, doc, text) of every candidate scoring above 0
RECURSIVE scored_loop(_, _, _, _)
scored_loop(fs, cands, ws, k) ==
    IF k > Len(cands) THEN <<>>
    ELSE LET txt == _read_text(fs, cands[k].path)
             s == _score_keywords(ws, txt)
         IN  (IF s # 0 THEN <<<<s, cands[k], txt>>>> ELSE <<>>)
             \o scored_loop(fs, cands, ws, k + 1)

\* variant: the sorted list is not cut to its first k_docs entries
retrieve_results_no_cut(fs, cands, ws, k_docs) ==
    LET top == list_sort(scored_loop(fs, cands, ws, 1), TRUE)
    IN  [i \in DOMAIN top |->
            <<top[i][2], _extract_snippets(top[i][3], ws, MAX_SNIPPETS, RADIUS), top[i][1]>>]

retrieve_results(fs, cands, ws, k_docs) ==
    LET scored == list_sort(scored_loop(fs, cands, ws, 1), TRUE)
        top == slice(scored, 0, k_docs)
    IN  [i \in DOMAIN top |->
            <<top[i][2], _extract_snippets(top[i][3], ws, MAX_SNIPPETS, RADIUS), top[i][1]>>]

\* variant: the pool is self.docs itself, and the shortlist is made in it in place
catalog_after_retrieve_in_place(ds, ws, qn) == retrieve_candidates(ds, ws, qn)

\* self.docs after _retrieve: line 179 builds the pool as a new list, line 199 sorts
\* prelim (another new list) in place, lines 200-202 and 213 take slices, and no
\* statement assigns to self.docs or to a field of a DocRef
catalog_after_retrieve(ds, ws, qn) == ds

\* _retrieve, given the value cf that _detect_commission_filter returned
_retrieve(fs, ds, q, k_docs, cf) ==
    LET ws == retrieve_words(q)
        pool == retrieve_pool(ds, cf)
        cands == retrieve_candidates(pool, ws, _normalize(q))
    IN  [words |-> ws,
         pool |-> pool,
         candidates |-> cands,
         results |-> retrieve_results(fs, cands, ws, k_docs),
         searched_commissions |-> sorted({cands[i].commission : i \in DOMAIN cands})]

\* an exception raised below _retrieve that no handler there catches
retrieve_raises(fs, cands) ==
    \E i \in DOMAIN cands : _read_text(fs, cands[i].path) = UNREADABLE

(***************************************************************************)
(* LegislativeAgent.ask: messages and prompt.                              *)
(***************************************************************************)
\* variant: the test on the searched list is inverted
no_evidence_message_inverted(searched) ==
    LET comms == IF searched = <<>> THEN join(COMMA_SP, slice(searched, 0, MAX_COMMS_SHOWN))
                 ELSE NA
    IN  NO_EVIDENCE_HEAD \o comms \o NO_EVIDENCE_TAIL

\* variant: the list of names is not cut
no_evidence_message_no_cut(searched) ==
    LET comms == IF searched # <<>> THEN join(COMMA_SP, searched) ELSE NA
    IN  NO_EVIDENCE_HEAD \o comms \o NO_EVIDENCE_TAIL

\* variant: no placeholder when nothing was searched
no_evidence_message_no_placeholder(searched) ==
    NO_EVIDENCE_HEAD \o join(COMMA_SP, slice(searched, 0, MAX_COMMS_SHOWN))
    \o NO_EVIDENCE_TAIL

no_evidence_message(searched) ==
    LET comms == IF searched # <<>> THEN join(COMMA_SP, slice(searched, 0, MAX_COMMS_SHOWN))
                 ELSE NA
    IN  NO_EVIDENCE_HEAD \o comms \o NO_EVIDENCE_TAIL

source_header(d, score) ==
    HDR_DOCUMENTO \o d.sid \o HDR_COMISION \o d.commission \o HDR_GRUPO \o d.group
    \o HDR_SCORE \o str_int(score)

source_block(r) ==
    source_header(r[1], r[3]) \o BULLET \o join(BULLET, slice(r[2], 0, PROMPT_SNIPPETS))

build_prompt(q, rs) ==
    PROMPT_HEAD \o q \o PROMPT_SOURCES
    \o join(BLANK_LINE, [i \in DOMAIN rs |-> source_block(rs[i])])
    \o PROMPT_INSTRUCTIONS

\* variant: only the credential is tested, not the SDK import
not_configured_key_only(rdy) == api_key = <<>>

\* variant: the result list is tested against None, which it never is
no_evidence_is_none(rs) == FALSE

\* variant: the failure detail is left out of the returned str
generation_failed_no_detail(detail) == [returns |-> ERROR_PREFIX, raises |-> FALSE]

\* line 235: the early return of an agent that is not ready
not_configured(rdy) == ~rdy

\* line 240: the no-evidence branch
no_evidence(rs) == rs = <<>>

\* line 277: (resp.text or "").strip()
generation_ok(text) == strip(IF text = NONE THEN <<>> ELSE text)

\* lines 278-279: the handler of an Exception raised by the generator call
\* (str(e) is the failure detail): what ask returns, and whether it re-raises
generation_failed(detail) == [returns |-> ERROR_PREFIX \o detail, raises |-> FALSE]

(***************************************************************************)
(* api/datastore.py: _score and DataStore.search_texts.  The scan of the   *)
(* store (lines 579-637) visits files in the order os.listdir and glob     *)
(* give; it is modelled by the sequence of the files visited, each with    *)
(* its kind and the text that is scored: the text of a .txt file, or the   *)
(* json.dumps text of what was parsed from a .json or .csv file.           *)
(* UNREADABLE stands for a file that cannot be read, and for a .json or    *)
(* .csv file that is parsed to a falsy object.                             *)
(***************************************************************************)
SNIPPET_CHARS == 1400
TOP_K == 10
AGENT_TOP_K == 6
SCORE_MIN_LEN == 3

NOT_WHITESPACE == {CODEPOINT_ORDER[i] : i \in DOMAIN CODEPOINT_ORDER} \ WHITESPACE

\* str.split(): the maximal runs of characters that are not whitespace
RECURSIVE split_from(_, _)
split_from(s, i) ==
    IF i > Len(s) THEN <<>>
    ELSE LET n == RunLen(s, i, NOT_WHITESPACE)
         IN  IF n = 0 THEN split_from(s, i + 1)
             ELSE <<SubSeq(s, i, i + n - 1)>> \o split_from(s, i + n)

split(s) == split_from(s, 1)

RECURSIVE score_sum(_, _, _)
score_sum(q, t, k) ==
    IF k > Len(q) THEN 0
    ELSE (IF Len(q[k]) >= SCORE_MIN_LEN THEN count(t, q[k]) ELSE 0) + score_sum(q, t, k + 1)

\* sum(t.count(w) for w in q if len(w) >= 3)
_score(query, text) == score_sum(split(lower(query)), lower(text), 1)

\* _read_text of datastore.py: "" when the file cannot be read
store_read_text(e) == IF e.text = UNREADABLE THEN <<>> ELSE e.text

\* the loops of lines 579-637 over the files visited
RECURSIVE scan_loop(_, _, _)
scan_loop(scan, k, query) ==
    IF k > Len(scan) THEN <<>>
    ELSE IF scan[k].kind # "txt" /\ scan[k].text = UNREADABLE
         THEN scan_loop(scan, k + 1, query)
    ELSE LET text == store_read_text(scan[k])
             s == _score(query, text)
         IN  (IF s > 0
              THEN <<[file |-> scan[k].file, score |-> s,
                      snippet |-> slice(text, 0, SNIPPET_CHARS)]>>
              ELSE <<>>)
             \o scan_loop(scan, k + 1, query)

\* variant: the sorted list is returned whole
search_texts_no_cut(scan, query, top_k) ==
    LET out == scan_loop(scan, 1, query)
        ranked == list_sort([i \in DOMAIN out |-> <<out[i].score, out[i]>>], TRUE)
    IN  [i \in DOMAIN ranked |-> ranked[i][2]]

\* out.sort(key=lambda x: x["score"], reverse=True); return out[:top_k]
search_texts(scan, query, top_k) ==
    LET out == scan_loop(scan, 1, query)
        ranked == list_sort([i \in DOMAIN out |-> <<out[i].score, out[i]>>], TRUE)
        top == slice(ranked, 0, top_k)
    IN  [i \in DOMAIN top |-> top[i][2]]

(***************************************************************************)
(* api/index.py: the KOM profile handlers.  A profile file is named by the *)
(* pair (chamber directory, file name) under the profiles directory; its   *)
(* content is absent, the JSON text of an object (held here as the object  *)
(* json.load gives back), or the partial text that a json.dump which       *)
(* raised has left behind.  A dict is a function from its keys.            *)
(***************************************************************************)
DEFAULT_CHAMBER == <<"c","a","m","a","r","a">>
JSON_EXT == <<".","j","s","o","n">>

ABSENT == [kind |-> "absent"]
PARTIAL == [kind |-> "partial"]
JsonFile(obj) == [kind |-> "json", obj |-> obj]

\* kom_profile_path (lines 79-92)
kom_profile_path(chamber, pid) ==
    << lower(IF chamber = <<>> THEN DEFAULT_CHAMBER ELSE chamber), strip(pid) \o JSON_EXT >>

\* text.encode("utf-8") succeeds: the str holds no lone surrogate
Encodable(s) == \A i \in DOMAIN s : s[i] # "U+D800"

\* json.dump(obj, f) into a file opened with encoding utf-8 goes through: every
\* str of the object can be encoded
Dumpable(obj) == \A k \in DOMAIN obj : obj[k] = NONE \/ Encodable(obj[k])

\* get_kom_profile (lines 195-216)
get_kom_profile(fs, chamber, pid) ==
    LET path == kom_profile_path(chamber, pid)
    IN  IF fs[path].kind # "absent"
        THEN IF fs[path].kind = "json"
             THEN [success |-> TRUE, exists |-> TRUE, profile |-> fs[path].obj]
             ELSE [success |-> FALSE, error |-> "JSONDecodeError"]
        ELSE [success |-> TRUE, exists |-> FALSE,
              profile |-> [id |-> pid, chamber |-> chamber, tags |-> <<>>, notes |-> <<>>,
                           notas |-> <<>>, links |-> <<>>, updated_at |-> NONE]]

\* payload after lines 220-222
stamped(chamber, pid, payload, now) ==
    [k \in DOMAIN payload \cup {"id", "chamber", "updated_at"} |->
        IF k = "id" THEN pid
        ELSE IF k = "chamber" THEN chamber
        ELSE IF k = "updated_at" THEN now
        ELSE payload[k]]

\* save_kom_profile (lines 218-231): the files afterwards and the response.  open
\* may raise (can_open is FALSE); once it has returned the file is empty, and
\* json.dump writes the text up to the first str it cannot encode
save_kom_profile(fs, chamber, pid, payload, now, can_open) ==
    LET path == kom_profile_path(chamber, pid)
        obj == stamped(chamber, pid, payload, now)
    IN  IF ~can_open
        THEN [files |-> fs, response |-> [success |-> FALSE, error |-> "OSError"]]
        ELSE IF Dumpable(obj)
        THEN [files |-> [fs EXCEPT ![path] = JsonFile(obj)],
              response |-> [success |-> TRUE, saved |-> TRUE, path |-> NONE]]
        ELSE [files |-> [fs EXCEPT ![path] = PARTIAL],
              response |-> [success |-> FALSE, error |-> "UnicodeEncodeError"]]

(***************************************************************************)
(* The environment: content root, generator outcomes, questions.           *)
(***************************************************************************)
MaxQWords == 2

S_sen == <<"s","e","n">>
S_Agr == <<"A","g","r">>
S_edu == <<"e","d","u">>
S_transcripts == <<"t","r","a","n","s","c","r","i","p","t","s">>
S_txt == <<"t","x","t">>
F_100 == <<"1","0","0",".","t","x","t">>
F_173 == <<"1","7","3",".","t","x","t">>

\* files that may exist under the content root: <group>/<commission>/<kind>/<file>
TRANSCRIPT_PATHS == { <<S_sen, S_Agr, S_transcripts, F_100>>,
                      <<S_sen, S_Agr, S_transcripts, F_173>> }
TXT_PATHS == { <<S_sen, S_edu, S_txt, F_173>> }

T_EMPTY == <<>>
T_AGR == <<"l","a"," ","a","g","r">>
T_BOTH == <<"A","g","r"," ","1","7","3","\n","a","g","r">>
T_SESION == <<" ","S","e","s","i","ó","n","\n">>
TEXTS == {T_EMPTY, T_AGR, T_BOTH, T_SESION}

API_KEYS == { <<>>, <<"k">> }

\* resp.text of a generator call that returns
RESP_TEXTS == { NONE, <<" ","o","k","\n">> }
\* str(e) of a generator call that raises
ERROR_DETAILS == { <<"b","o","o","m">> }

Q_PIECES == { S_Agr, <<"1","7","3">>, <<"q","u","e">>, S_edu }

RECURSIVE QuestionsOf(_)
QuestionsOf(n) ==
    IF n = 0 THEN { <<>> }
    ELSE LET shorter == QuestionsOf(n - 1)
         IN  shorter \cup Q_PIECES
             \cup {q \o SPACE \o w : q \in shorter \ { <<>> }, w \in Q_PIECES}

QUESTIONS == QuestionsOf(MaxQWords)

\* all orders in which glob may list the files of S
Perms(S) ==
    {p \in [1..Cardinality(S) -> S] : \A i, j \in 1..Cardinality(S) : p[i] = p[j] => i = j}

\* paths.extend(glob(transcripts pattern)); paths.extend(glob(txt pattern))
GlobResults(present) ==
    {a \o b : a \in Perms(present \cap TRANSCRIPT_PATHS), b \in Perms(present \cap TXT_PATHS)}

(***************************************************************************)
(* The agent: construction and ask.                                        *)
(***************************************************************************)
\* outcomes of generate_content: it returned a response with this text, or raised
\* an Exception e with this str(e)
NO_CALL == [kind |-> "none", value |-> <<>>]
Returned(text) == [kind |-> "returned", value |-> text]
Raised(detail) == [kind |-> "raised", value |-> detail]

IdleAsk ==
    /\ st = "IDLE"
    /\ question = NONE
    /\ words = <<>>
    /\ commission_filter = NONE
    /\ candidates = <<>>
    /\ retrieved = <<>>
    /\ searched_commissions = <<>>
    /\ prompt = NONE
    /\ ret = NONE
    /\ raised = FALSE
    /\ hist = <<>>
    /\ reads = 0
    /\ scans = 0
    /\ genCalls = 0
    /\ gen = NO_CALL

NoFunctionCall == fnIn = NONE /\ fnOut = <<>>

\* LegislativeAgent.__init__
Init ==
    /\ api_key \in API_KEYS
    /\ USING_NEW_API \in BOOLEAN
    /\ ready = (api_key # <<>> /\ USING_NEW_API)
    /\ repo \in {"dir", "missing", "unreadable"}
    /\ \E present \in SUBSET (TRANSCRIPT_PATHS \cup TXT_PATHS) :
          /\ repo # "dir" => present = {}
          /\ files \in [present -> TEXTS \cup {UNREADABLE}]
          /\ \E paths \in GlobResults(present) : docs = _build_index(repo, paths)
    /\ IdleAsk
    /\ NoFunctionCall

\* ask, up to the early return of line 236 or the call of _retrieve at line 238
Ask(q) ==
    /\ st = "IDLE"
    /\ question' = q
    /\ IF not_configured(ready)
       THEN /\ st' = "NOT_CONFIGURED"
            /\ hist' = <<"NOT_CONFIGURED">>
            /\ ret' = NOT_CONFIGURED_MSG
       ELSE /\ st' = "RETRIEVING"
            /\ hist' = <<"CONFIGURED", "RETRIEVING">>
            /\ ret' = NONE
    /\ UNCHANGED <<api_key, USING_NEW_API, ready, repo, files, docs, words,
                   commission_filter, candidates, retrieved, searched_commissions,
                   prompt, raised, reads, scans, genCalls, gen, fnIn, fnOut>>

\* lines 238-265: _retrieve, then the no-evidence return or the prompt
Retrieve ==
    /\ st = "RETRIEVING"
    /\ \E cf \in _detect_commission_filter(question, docs) :
          LET r == _retrieve(files, docs, question, K_DOCS, cf)
          IN  /\ commission_filter' = cf
              /\ words' = r.words
              /\ candidates' = r.candidates
              /\ docs' = catalog_after_retrieve(docs, r.words, _normalize(question))
              /\ reads' = reads + Len(r.candidates)
              /\ scans' = scans + (IF _normalize(question) # <<>> THEN 2 ELSE 1)
              /\ IF retrieve_raises(files, r.candidates)
                 THEN /\ raised' = TRUE
                      /\ st' = "RAISED"
                      /\ UNCHANGED <<retrieved, searched_commissions, prompt, ret, hist>>
                 ELSE /\ retrieved' = r.results
                      /\ searched_commissions' = r.searched_commissions
                      /\ raised' = FALSE
                      /\ IF no_evidence(r.results)
                         THEN /\ st' = "NO_EVIDENCE"
                              /\ hist' = Append(hist, "NO_EVIDENCE")
                              /\ ret' = no_evidence_message(r.searched_commissions)
                              /\ prompt' = prompt
                         ELSE /\ st' = "EVIDENCE_FOUND"
                              /\ hist' = Append(hist, "EVIDENCE_FOUND")
                              /\ prompt' = build_prompt(question, r.results)
                              /\ ret' = ret
    /\ UNCHANGED <<api_key, USING_NEW_API, ready, repo, files, question, genCalls,
                   gen, fnIn, fnOut>>

\* lines 267-277: generate_content returns a response whose text is `text`
GenerateOk(text) ==
    /\ st = "EVIDENCE_FOUND"
    /\ genCalls' = genCalls + 1
    /\ gen' = Returned(text)
    /\ ret' = generation_ok(text)
    /\ st' = "GENERATION_OK"
    /\ hist' = Append(hist, "GENERATION_OK")
    /\ UNCHANGED <<api_key, USING_NEW_API, ready, repo, files, docs, question, words,
                   commission_filter, candidates, retrieved, searched_commissions,
                   prompt, raised, reads, scans, fnIn, fnOut>>

\* lines 267-279: generate_content raises an Exception e with str(e) = detail
GenerateRaise(detail) ==
    /\ st = "EVIDENCE_FOUND"
    /\ genCalls' = genCalls + 1
    /\ gen' = Raised(detail)
    /\ LET h == generation_failed(detail)
       IN  IF h.raises
           THEN /\ raised' = TRUE
                /\ st' = "RAISED"
                /\ UNCHANGED <<ret, hist>>
           ELSE /\ raised' = FALSE
                /\ ret' = h.returns
                /\ st' = "GENERATION_FAILED"
                /\ hist' = Append(hist, "GENERATION_FAILED")
    /\ UNCHANGED <<api_key, USING_NEW_API, ready, repo, files, docs, question, words,
                   commission_filter, candidates, retrieved, searched_commissions,
                   prompt, reads, scans, fnIn, fnOut>>

TERMINAL == {"NOT_CONFIGURED", "NO_EVIDENCE", "GENERATION_OK", "GENERATION_FAILED"}

\* the caller takes the returned str; the agent is ready for the next ask
Return ==
    /\ st \in TERMINAL
    /\ st' = "IDLE"
    /\ question' = NONE
    /\ words' = <<>>
    /\ commission_filter' = NONE
    /\ candidates' = <<>>
    /\ retrieved' = <<>>
    /\ searched_commissions' = <<>>
    /\ prompt' = NONE
    /\ ret' = NONE
    /\ raised' = FALSE
    /\ hist' = <<>>
    /\ reads' = 0
    /\ scans' = 0
    /\ genCalls' = 0
    /\ gen' = NO_CALL
    /\ UNCHANGED <<api_key, USING_NEW_API, ready, repo, files, docs, fnIn, fnOut>>

Next ==
    \/ \E q \in QUESTIONS : Ask(q)
    \/ Retrieve
    \/ \E text \in RESP_TEXTS : GenerateOk(text)
    \/ \E detail \in ERROR_DETAILS : GenerateRaise(detail)
    \/ Return

Spec == Init /\ [][Next]_vars

(***************************************************************************)
(* _keywords, and the keyword list _retrieve works with, as functions of   *)
(* the question: every question over a small alphabet (letters that spell  *)
(* the stop-words "una" and "un", an upper-case letter, the hyphen, a      *)
(* separator).                                                             *)
(***************************************************************************)
MaxQLen == 7

KW_ALPHABET == {"u", "n", "A", "-", " "}
KW_QUESTIONS == UNION {[1..n -> KW_ALPHABET] : n \in 0..MaxQLen}

\* no agent is constructed in the specifications of the module-level functions
NoAgent ==
    /\ api_key = <<>>
    /\ USING_NEW_API = FALSE
    /\ ready = FALSE
    /\ repo = "missing"
    /\ files = <<>>
    /\ docs = <<>>
    /\ IdleAsk

agentVars == <<api_key, USING_NEW_API, ready, repo, files, docs, st, question, words,
               commission_filter, candidates, retrieved, searched_commissions, prompt,
               ret, raised, hist, reads, scans, genCalls, gen>>

InitKeywords ==
    /\ NoAgent
    /\ fnIn \in {[op |-> o, q |-> q] : o \in {"_keywords", "_retrieve"}, q \in KW_QUESTIONS}
    /\ fnOut = <<>>

CallKeywords ==
    /\ fnIn.op = "_keywords"
    /\ fnOut = <<>>
    /\ fnOut' = <<_keywords(fnIn.q)>>
    /\ UNCHANGED <<agentVars, fnIn>>

\* lines 174-176 of _retrieve
CallRetrieveWords ==
    /\ fnIn.op = "_retrieve"
    /\ fnOut = <<>>
    /\ fnOut' = <<retrieve_words(fnIn.q)>>
    /\ UNCHANGED <<agentVars, fnIn>>

NextKeywords == CallKeywords \/ CallRetrieveWords

SpecKeywords == InitKeywords /\ [][NextKeywords]_vars

(***************************************************************************)
(* _score_keywords as a function of its arguments: keyword lists that      *)
(* _keywords produces, and texts made of a repeated first piece followed   *)
(* by a repeated second piece.                                             *)
(***************************************************************************)
MaxRep == 32
MaxRep2 == 2

RECURSIVE Rep(_, _)
Rep(piece, n) == IF n = 0 THEN <<>> ELSE piece \o Rep(piece, n - 1)

SC_PIECES == { <<"A","g","r">>, <<"a">> }
SC_TEXTS ==
    {Rep(p, n1) \o Rep(<<"1","7","3">>, n2) : p \in SC_PIECES, n1 \in 0..MaxRep,
                                              n2 \in 0..MaxRep2}
SC_QUESTIONS ==
    { <<>>,
      <<"a","g","r"," ","1","7","3">>,
      <<"a","a","a">>,
      <<"1","7","3"," ","A","G","R"," ","a","g","r">>,
      <<"a","a","a"," ","1","7","3">> }
SC_WORDS == {_keywords(q) : q \in SC_QUESTIONS}

InitScore ==
    /\ NoAgent
    /\ fnIn \in {[op |-> "_score_keywords", words |-> ws, text |-> t] :
                    ws \in SC_WORDS, t \in SC_TEXTS}
    /\ fnOut = <<>>

CallScore ==
    /\ fnIn.op = "_score_keywords"
    /\ fnOut = <<>>
    /\ fnOut' = <<_score_keywords(fnIn.words, fnIn.text)>>
    /\ UNCHANGED <<agentVars, fnIn>>

SpecScore == InitScore /\ [][CallScore]_vars

(***************************************************************************)
(* _extract_snippets as a function of its arguments: every text over a     *)
(* small alphabet (a lower-case and an upper-case letter, the newline),    *)
(* keyword lists that _keywords produces, small max_snippets and radius;   *)
(* and one text longer than the head the fallback returns.                 *)
(***************************************************************************)
MaxTextLen == 7
MaxSnip == 2
MaxRadius == 3

SN_ALPHABET == {"a", "B", "\n"}
SN_TEXTS == UNION {[1..n -> SN_ALPHABET] : n \in 0..MaxTextLen}
SN_QUESTIONS == { <<>>, <<"A","B","A">>, <<"b","a","b"," ","a","b","a">> }
SN_WORDS == {_keywords(q) : q \in SN_QUESTIONS}
LONG_TEXT == [i \in 1..(HEAD_CHARS + 1) |-> "a"]

InitSnippets ==
    /\ NoAgent
    /\ fnIn \in {[op |-> "_extract_snippets", text |-> t, words |-> ws,
                  max_snippets |-> n, radius |-> r] :
                    t \in SN_TEXTS, ws \in SN_WORDS, n \in 1..MaxSnip, r \in 0..MaxRadius}
                \cup {[op |-> "_extract_snippets", text |-> LONG_TEXT, words |-> <<>>,
                       max_snippets |-> MAX_SNIPPETS, radius |-> RADIUS]}
    /\ fnOut = <<>>

CallSnippets ==
    /\ fnIn.op = "_extract_snippets"
    /\ fnOut = <<>>
    /\ fnOut' = <<_extract_snippets(fnIn.text, fnIn.words, fnIn.max_snippets, fnIn.radius)>>
    /\ UNCHANGED <<agentVars, fnIn>>

SpecSnippets == InitSnippets /\ [][CallSnippets]_vars

(***************************************************************************)
(* _extract_snippets on texts with more keyword occurrences than the cap   *)
(* on captured hits admits: the text is "aba0aba1aba2..." of up to MaxHits *)
(* pieces, so that with radius >= 1 neighbouring windows differ.           *)
(***************************************************************************)
MaxHits == 20

S_aba == <<"a","b","a">>
RECURSIVE HC_TEXT(_)
HC_TEXT(n) == IF n = 0 THEN <<>> ELSE HC_TEXT(n - 1) \o S_aba \o str_int((n - 1) % 10)
HC_WORDS == { <<S_aba>>, <<S_aba, S_aba>> }
HC_MAX_SNIPPETS == {1, 2, MAX_SNIPPETS}
HC_RADIUS == {0, 1, 2}

InitHitCap ==
    /\ NoAgent
    /\ fnIn \in {[op |-> "_extract_snippets", text |-> HC_TEXT(n), words |-> ws,
                  max_snippets |-> k, radius |-> r] :
                    n \in 0..MaxHits, ws \in HC_WORDS, k \in HC_MAX_SNIPPETS, r \in HC_RADIUS}
    /\ fnOut = <<>>

SpecHitCap == InitHitCap /\ [][CallSnippets]_vars

(***************************************************************************)
(* The agent over a catalog of one document: each of the files above on    *)
(* its own, and the file 173.txt of the commission Agricultura, asked the  *)
(* questions above and a question that names that commission.              *)
(***************************************************************************)
S_Agricultura == <<"A","g","r","i","c","u","l","t","u","r","a">>
AGRICULTURA_PATH == <<S_sen, S_Agricultura, S_transcripts, F_173>>
T_CITADA ==
    <<"L","a"," ","s","e","s","i","ó","n"," ","1","7","3"," ","f","u","e"," ","c","i",
      "t","a","d","a"," ","e","l"," ","1","0","-","0","5","-","2","0","2","4",".">>
Q_AGRICULTURA ==
    <<"¿","Q","u","é"," ","p","a","s","ó"," ","e","n"," ","l","a"," ","s","e","s","i",
      "ó","n"," ","1","7","3"," ","d","e"," ","A","g","r","i","c","u","l","t","u","r",
      "a","?">>

InitSingleDoc ==
    /\ api_key \in API_KEYS
    /\ USING_NEW_API \in BOOLEAN
    /\ ready = (api_key # <<>> /\ USING_NEW_API)
    /\ repo = "dir"
    /\ \E p \in TRANSCRIPT_PATHS \cup TXT_PATHS \cup {AGRICULTURA_PATH} :
          /\ files \in [{p} -> TEXTS \cup {T_CITADA, UNREADABLE}]
          /\ docs = _build_index(repo, <<p>>)
    /\ IdleAsk
    /\ NoFunctionCall

NextSingleDoc ==
    \/ \E q \in QUESTIONS \cup {Q_AGRICULTURA} : Ask(q)
    \/ Retrieve
    \/ \E text \in RESP_TEXTS : GenerateOk(text)
    \/ \E detail \in ERROR_DETAILS : GenerateRaise(detail)
    \/ Return

SpecSingleDoc == InitSingleDoc /\ [][NextSingleDoc]_vars

(***************************************************************************)
(* The prompt of ask (lines 248-265) as a function of the question and of  *)
(* the retrieved list: one or two documents of a catalog whose directory   *)
(* names may hold the text that separates the fields of a header line, and *)
(* a question that may hold a line that reads like a header.               *)
(***************************************************************************)
S_b == <<"b">>
S_d == <<"d">>
S_b_GRUPO_c == <<"b"," ","|"," ","G","R","U","P","O",":"," ","c">>
S_c_GRUPO_d == <<"c"," ","|"," ","G","R","U","P","O",":"," ","d">>
F_1 == <<"1",".","t","x","t">>
PR_PATHS ==
    {<<g, c, S_transcripts, F_1>> : g \in {S_d, S_c_GRUPO_d}, c \in {S_b, S_b_GRUPO_c}}
PR_DOCS == {_build_index("dir", <<p>>)[1] : p \in PR_PATHS}
PR_SNIPPETS ==
    { << <<"x">> >>,
      << <<"D","O","C","U","M","E","N","T","O",":"," ","1",".","t","x","t">>, <<"y">> >> }
PR_ENTRIES == {<<d, sn, s>> : d \in PR_DOCS, sn \in PR_SNIPPETS, s \in {1, 12}}
\* a retrieved list holds a document once (the catalog holds a path once)
PR_RESULTS ==
    {<<e>> : e \in PR_ENTRIES}
    \cup {p \in PR_ENTRIES \X PR_ENTRIES : p[1][1] # p[2][1]}
Q_PLAIN ==
    <<"q","?">>
Q_HEADER ==
    <<"q","?","\n","D","O","C","U","M","E","N","T","O",":"," ","9",".","t","x","t"," ",
      "|"," ","C","O","M","I","S","I","Ó","N",":"," ","b"," ","|"," ","G","R","U","P",
      "O",":"," ","c"," ","|"," ","S","C","O","R","E",":"," ","3">>
PR_QUESTIONS == {Q_PLAIN, Q_HEADER}

InitPrompt ==
    /\ NoAgent
    /\ fnIn \in {[op |-> "build_prompt", question |-> q, retrieved |-> rs] :
                    q \in PR_QUESTIONS, rs \in PR_RESULTS}
    /\ fnOut = <<>>

CallBuildPrompt ==
    /\ fnIn.op = "build_prompt"
    /\ fnOut = <<>>
    /\ fnOut' = <<build_prompt(fnIn.question, fnIn.retrieved)>>
    /\ UNCHANGED <<agentVars, fnIn>>

SpecPrompt == InitPrompt /\ [][CallBuildPrompt]_vars

(***************************************************************************)
(* The phase-1 score of one pool document (lines 182-193) as a function of *)
(* the document and the question: every question over a small alphabet     *)
(* (two digits, a letter, the hyphen, the space), and a document whose sid *)
(* holds the digits.                                                       *)
(***************************************************************************)
S_A == <<"A">>
S_A17 == <<"A","1","7">>
F_117 == <<"1","1","7",".","t","x","t">>
MS_PATHS == { <<S_A, S_A17, S_transcripts, F_117>> }
MS_DOCS == {_build_index("dir", <<p>>)[1] : p \in MS_PATHS}
MS_ALPHABET == {"1", "7", "A", "-", " "}
MS_QUESTIONS == UNION {[1..n -> MS_ALPHABET] : n \in 0..MaxQLen}

InitPathScore ==
    /\ NoAgent
    /\ fnIn \in {[op |-> "path_score", d |-> d, q |-> q] : d \in MS_DOCS, q \in MS_QUESTIONS}
    /\ fnOut = <<>>

CallPathScore ==
    /\ fnIn.op = "path_score"
    /\ fnOut = <<>>
    /\ fnOut' = <<path_score(fnIn.d, retrieve_words(fnIn.q), _normalize(fnIn.q))>>
    /\ UNCHANGED <<agentVars, fnIn>>

SpecPathScore == InitPathScore /\ [][CallPathScore]_vars

(***************************************************************************)
(* Phase 1 of _retrieve (lines 174-202) as a function of the catalog and   *)
(* the question: catalogs of up to MaxPool documents, enough for the cut   *)
(* to 60 candidates to act.  Document i is the file i.txt; the first is of *)
(* another group, every third of another commission.                       *)
(***************************************************************************)
MaxPool == 62

S_cam == <<"c","a","m">>
TXT == <<".","t","x","t">>
SL_PATH(i) ==
    << IF i = 1 THEN S_cam ELSE S_sen,
       IF i % 3 = 0 THEN S_edu ELSE S_Agr,
       S_transcripts,
       str_int(i) \o TXT >>
SL_CATALOGS == {_build_index("dir", [i \in 1..n |-> SL_PATH(i)]) : n \in 0..MaxPool}
SL_QUESTIONS ==
    { <<>>,
      <<"q","u","e">>,
      <<"s","e","n">>,
      <<"s","e","n"," ","1","7">>,
      <<"1","7">>,
      <<"A","g","r">>,
      <<"e","d","u"," ","1","2"," ","s","e","n">>,
      <<"t","r","a","n","s","c","r","i","p","t","s">> }

InitShortlist ==
    /\ NoAgent
    /\ fnIn \in {[op |-> "candidates", docs |-> ds, q |-> q] :
                    ds \in SL_CATALOGS, q \in SL_QUESTIONS}
    /\ fnOut = <<>>

CallShortlist ==
    /\ fnIn.op = "candidates"
    /\ fnOut = <<>>
    /\ \E cf \in _detect_commission_filter(fnIn.q, fnIn.docs) :
          LET pool == retrieve_pool(fnIn.docs, cf)
          IN  fnOut' = <<[commission_filter |-> cf,
                          pool |-> pool,
                          candidates |-> retrieve_candidates(pool, retrieve_words(fnIn.q),
                                                             _normalize(fnIn.q))]>>
    /\ UNCHANGED <<agentVars, fnIn>>

SpecShortlist == InitShortlist /\ [][CallShortlist]_vars

(***************************************************************************)
(* _retrieve (lines 169-221) as a function of the catalog, the files and   *)
(* the question, over catalogs of up to MaxDocs documents, more than the   *)
(* k_docs results kept.  Document i is the file i.txt of the commission    *)
(* Agr, the first one of the commission edu.                               *)
(***************************************************************************)
MaxDocs == 8

TK_PATH(i) == << S_sen, IF i = 1 THEN S_edu ELSE S_Agr, S_transcripts, str_int(i) \o TXT >>
TK_PATHS(n) == {TK_PATH(i) : i \in 1..n}
TK_TEXTS == {T_AGR, T_BOTH, T_SESION}
\* the texts of the files; the file of the commission edu holds T_BOTH
TK_FILES(n) == {f \in [TK_PATHS(n) -> TK_TEXTS] : n >= 1 => f[TK_PATH(1)] = T_BOTH}
TK_QUESTIONS == { <<"a","g","r"," ","1","7","3">>, <<"1","7","3">> }
TK_K_DOCS == {2, K_DOCS}

InitTopK ==
    /\ NoAgent
    /\ \E n \in 0..MaxDocs :
          fnIn \in {[op |-> "_retrieve", docs |-> _build_index("dir", [i \in 1..n |-> TK_PATH(i)]),
                     files |-> f, q |-> q, k_docs |-> k] :
                       f \in TK_FILES(n), q \in TK_QUESTIONS, k \in TK_K_DOCS}
    /\ fnOut = <<>>

CallRetrieve ==
    /\ fnIn.op = "_retrieve"
    /\ fnOut = <<>>
    /\ \E cf \in _detect_commission_filter(fnIn.q, fnIn.docs) :
          fnOut' = <<[commission_filter |-> cf,
                      retrieval |-> _retrieve(fnIn.files, fnIn.docs, fnIn.q, fnIn.k_docs, cf)]>>
    /\ UNCHANGED <<agentVars, fnIn>>

SpecTopK == InitTopK /\ [][CallRetrieve]_vars

(***************************************************************************)
(* _retrieve over a catalog of one document whose text is a run of spaces, *)
(* a run of U+0130 (the character that lower() turns into two) and the     *)
(* keyword "agr": the runs are empty, short, or as long as the head of the *)
(* fallback and the radius of a window.                                    *)
(***************************************************************************)
LD_PATH == <<S_sen, S_Agr, S_transcripts, F_100>>
S_agr == <<"a","g","r">>
LD_TEXT(pad, shift) ==
    [i \in 1..(pad + shift + Len(S_agr)) |->
        IF i <= pad THEN " "
        ELSE IF i <= pad + shift THEN "U+0130"
        ELSE S_agr[i - pad - shift]]
LD_PAD == {0, 1, 2, HEAD_CHARS - 1, HEAD_CHARS}
LD_SHIFT == {0, 1, 2, 3, RADIUS + 1, RADIUS + 2, RADIUS + 3, RADIUS + 4}
LD_QUESTIONS == { <<"a","g","r"," ","1","7","3">>, <<"A","g","r">> }

InitLongDoc ==
    /\ NoAgent
    /\ fnIn \in {[op |-> "_retrieve", docs |-> _build_index("dir", <<LD_PATH>>),
                  files |-> [p \in {LD_PATH} |-> LD_TEXT(pad, shift)], q |-> q,
                  k_docs |-> K_DOCS] :
                    pad \in LD_PAD, shift \in LD_SHIFT, q \in LD_QUESTIONS}
    /\ fnOut = <<>>

SpecLongDoc == InitLongDoc /\ [][CallRetrieve]_vars

(***************************************************************************)
(* The agent over catalogs of up to MaxComms commissions, more than the 12 *)
(* the no-evidence message shows: commission i is the directory "c<i>"     *)
(* with the one file 100.txt, so that the sorted order of the names is not *)
(* the catalog order.                                                      *)
(***************************************************************************)
MaxComms == 14

MC_PATH(i) == << S_sen, <<"c">> \o str_int(i), S_transcripts, F_100 >>
MC_QUESTIONS ==
    { <<>>,
      <<"s","e","n">>,
      <<"c","1">>,
      <<"c","1","2"," ","a","g","r">> }

InitManyCommissions ==
    /\ api_key \in API_KEYS
    /\ USING_NEW_API = TRUE
    /\ ready = (api_key # <<>> /\ USING_NEW_API)
    /\ repo = "dir"
    /\ \E n \in 0..MaxComms :
          /\ files = [p \in {MC_PATH(i) : i \in 1..n} |-> T_AGR]
          /\ docs = _build_index(repo, [i \in 1..n |-> MC_PATH(i)])
    /\ IdleAsk
    /\ NoFunctionCall

NextManyCommissions ==
    \/ \E q \in MC_QUESTIONS : Ask(q)
    \/ Retrieve
    \/ \E text \in RESP_TEXTS : GenerateOk(text)
    \/ \E detail \in ERROR_DETAILS : GenerateRaise(detail)
    \/ Return

SpecManyCommissions == InitManyCommissions /\ [][NextManyCommissions]_vars

(***************************************************************************)
(* The agent over the catalog of one document with the texts above.        *)
(***************************************************************************)
InitLongDocAsk ==
    /\ api_key \in API_KEYS
    /\ USING_NEW_API = TRUE
    /\ ready = (api_key # <<>> /\ USING_NEW_API)
    /\ repo = "dir"
    /\ \E pad \in {0, HEAD_CHARS}, shift \in LD_SHIFT :
          files = [p \in {LD_PATH} |-> LD_TEXT(pad, shift)]
    /\ docs = _build_index(repo, <<LD_PATH>>)
    /\ IdleAsk
    /\ NoFunctionCall

NextLongDocAsk ==
    \/ \E q \in LD_QUESTIONS : Ask(q)
    \/ Retrieve
    \/ \E text \in RESP_TEXTS : GenerateOk(text)
    \/ \E detail \in ERROR_DETAILS : GenerateRaise(detail)
    \/ Return

SpecLongDocAsk == InitLongDocAsk /\ [][NextLongDocAsk]_vars

(***************************************************************************)
(* DataStore.search_texts as a function of the files scanned, the query    *)
(* and top_k: scans of up to MaxScan files, more than the top_k hits kept, *)
(* the i-th file holding one of five contents, one of them longer than the *)
(* snippet.                                                                *)
(***************************************************************************)
MaxScan == 11

ST_LONG ==
    [i \in 1..(SNIPPET_CHARS + 6) |->
        IF i <= 3 THEN S_agr[i]
        ELSE IF i <= SNIPPET_CHARS + 3 THEN " "
        ELSE <<"1","7","3">>[i - SNIPPET_CHARS - 3]]
ST_CONTENTS == <<T_AGR, T_BOTH, T_SESION, ST_LONG, UNREADABLE>>
ST_KINDS == <<"txt", "json", "csv">>
ST_EXT == << <<".","t","x","t">>, <<".","j","s","o","n">>, <<".","c","s","v">> >>
\* the i-th file of the scan number v
ST_ENTRY(i, v) ==
    [file |-> str_int(i) \o ST_EXT[(i % 3) + 1],
     kind |-> ST_KINDS[(i % 3) + 1],
     text |-> ST_CONTENTS[((i * v) % 5) + 1]]
ST_SCANS == {[i \in 1..n |-> ST_ENTRY(i, v)] : n \in 0..MaxScan, v \in {1, 2, 3, 4}}
ST_QUERIES ==
    { <<>>,
      <<"a","b"," ","1","7">>,
      <<"a","g","r">>,
      <<"A","G","R"," ","1","7","3">>,
      <<" ","a","g","r"," "," ","a","g","r","\n">> }
ST_TOP_K == {1, AGENT_TOP_K, TOP_K}

InitSearch ==
    /\ NoAgent
    /\ fnIn \in {[op |-> "search_texts", scan |-> sc, query |-> q, top_k |-> k] :
                    sc \in ST_SCANS, q \in ST_QUERIES, k \in ST_TOP_K}
    /\ fnOut = <<>>

CallSearchTexts ==
    /\ fnIn.op = "search_texts"
    /\ fnOut = <<>>
    /\ fnOut' = <<search_texts(fnIn.scan, fnIn.query, fnIn.top_k)>>
    /\ UNCHANGED <<agentVars, fnIn>>

SpecSearch == InitSearch /\ [][CallSearchTexts]_vars

(***************************************************************************)
(* The KOM profile handlers over two profile files: requests name the      *)
(* chamber in either case and the id with or without a leading space; a    *)
(* payload may bring its own id, chamber and updated_at, or a str that     *)
(* cannot be encoded.                                                      *)
(***************************************************************************)
KOM_CHAMBERS == { <<"c","a","m","a","r","a">>, <<"C","A","M","A","R","A">> }
KOM_PIDS == { <<"1">>, <<" ","1">>, <<"2">> }
KOM_PATHS == {kom_profile_path(c, p) : c \in KOM_CHAMBERS, p \in KOM_PIDS}
KOM_PAYLOADS ==
    { [notes |-> <<"a">>],
      [notes |-> <<"b">>, id |-> <<"9">>, chamber |-> <<"x">>, updated_at |-> <<"o","l","d">>],
      [notes |-> <<"U+D800">>] }
\* datetime.utcnow().isoformat() + "Z" at the time of a save
KOM_TIMES == { <<"T","1">>, <<"T","2">> }

InitKom ==
    /\ api_key = <<>>
    /\ USING_NEW_API = FALSE
    /\ ready = FALSE
    /\ repo = "missing"
    /\ docs = <<>>
    /\ IdleAsk
    /\ files = [p \in KOM_PATHS |-> ABSENT]
    /\ NoFunctionCall

komFrame == <<api_key, USING_NEW_API, ready, repo, docs, st, question, words,
              commission_filter, candidates, retrieved, searched_commissions, prompt,
              ret, raised, hist, reads, scans, genCalls, gen>>

\* GET /api/kom/{chamber}/{pid}
GetKomProfile(chamber, pid) ==
    /\ fnIn' = [op |-> "get_kom_profile", chamber |-> chamber, pid |-> pid]
    /\ fnOut' = <<get_kom_profile(files, chamber, pid)>>
    /\ UNCHANGED <<komFrame, files>>

\* POST /api/kom/{chamber}/{pid}
SaveKomProfile(chamber, pid, payload) ==
    \E now \in KOM_TIMES, can_open \in BOOLEAN :
        LET r == save_kom_profile(files, chamber, pid, payload, now, can_open)
        IN  /\ fnIn' = [op |-> "save_kom_profile", chamber |-> chamber, pid |-> pid,
                        payload |-> payload]
            /\ fnOut' = <<r.response>>
            /\ files' = r.files
            /\ UNCHANGED komFrame

NextKom ==
    \/ \E c \in KOM_CHAMBERS, p \in KOM_PIDS : GetKomProfile(c, p)
    \/ \E c \in KOM_CHAMBERS, p \in KOM_PIDS, payload \in KOM_PAYLOADS :
          SaveKomProfile(c, p, payload)

SpecKom == InitKom /\ [][NextKom]_vars

(***************************************************************************)
(* Properties.                                                             *)
(***************************************************************************)
AfterRetrieval == st \in {"NO_EVIDENCE", "EVIDENCE_FOUND", "GENERATION_OK", "GENERATION_FAILED"}

HasPrefix(s, p) == Len(p) <= Len(s) /\ SubSeq(s, 1, Len(p)) = p
HasSuffix(s, p) == Len(p) <= Len(s) /\ SubSeq(s, Len(s) - Len(p) + 1, Len(s)) = p

\* C1: an ask on an agent that is not ready ends at once in NOT_CONFIGURED with the
\* fixed configuration warning, having made no catalog scan, no document read and
\* no generator call.
C1_NotConfiguredNoWork ==
    (st # "IDLE" /\ ~ready) =>
        /\ st = "NOT_CONFIGURED"
        /\ ret = NOT_CONFIGURED_MSG
        /\ reads = 0
        /\ scans = 0
        /\ genCalls = 0

C1_Witness ==
    /\ st = "NOT_CONFIGURED"
    /\ ~ready
    /\ api_key # <<>>
    /\ Len(docs) >= 2
    /\ question # <<>>

\* the part of a no-evidence message between its fixed head and tail
ListedPart(m) == SubSeq(m, Len(NO_EVIDENCE_HEAD) + 1, Len(m) - Len(NO_EVIDENCE_TAIL))

IsNoEvidenceMessage(m) ==
    /\ Len(m) >= Len(NO_EVIDENCE_HEAD) + Len(NO_EVIDENCE_TAIL)
    /\ HasPrefix(m, NO_EVIDENCE_HEAD)
    /\ HasSuffix(m, NO_EVIDENCE_TAIL)

NoCandidateScores ==
    \A i \in DOMAIN candidates :
        _score_keywords(words, _read_text(files, candidates[i].path)) = 0

\* C2: when no candidate of a configured agent's retrieval has content score > 0, the
\* ask ends in NO_EVIDENCE without any generator call and returns the fixed
\* no-evidence message; when the pool searched is non-empty, the message lists the
\* commission of at least one document that was searched.
C2_NoEvidenceNoGenerator ==
    (AfterRetrieval /\ NoCandidateScores) =>
        /\ st = "NO_EVIDENCE"
        /\ genCalls = 0
        /\ gen = NO_CALL
        /\ IsNoEvidenceMessage(ret)
        /\ retrieve_pool(docs, commission_filter) # <<>> =>
              \E i \in DOMAIN candidates :
                  /\ candidates[i].commission # <<>>
                  /\ Contains(ListedPart(ret), candidates[i].commission)

C2_Witness ==
    /\ st = "NO_EVIDENCE"
    /\ Len(candidates) >= 2
    /\ Len(searched_commissions) >= 2
    /\ \E i \in DOMAIN candidates : files[candidates[i].path] \notin {UNREADABLE, <<>>}

\* C3: ask is total: whatever the question, the catalog, the outcome of each read
\* and the outcome of the generator call, no exception reaches the caller, the
\* retrieval of a running ask always has a next step to take, and an ask has
\* returned a str exactly when it has ended.
C3_AskTotal ==
    /\ ~raised
    /\ st # "RAISED"
    /\ st \in {"IDLE", "RETRIEVING", "EVIDENCE_FOUND"} \cup TERMINAL
    /\ st = "RETRIEVING" => _detect_commission_filter(question, docs) # {}
    /\ st \in TERMINAL => (ret # NONE /\ ret # UNREADABLE)
    /\ st \in {"IDLE", "RETRIEVING", "EVIDENCE_FOUND"} => ret = NONE

C3_Witness ==
    /\ st = "GENERATION_FAILED"
    /\ ret # NONE
    /\ \E i \in DOMAIN candidates : files[candidates[i].path] = UNREADABLE

\* r is t without its leading and trailing whitespace
IsTrimOf(r, t) ==
    \E a \in 0..Len(t) : \E b \in a..Len(t) :
        /\ r = SubSeq(t, a + 1, b)
        /\ \A i \in 1..a : t[i] \in WHITESPACE
        /\ \A i \in (b + 1)..Len(t) : t[i] \in WHITESPACE
        /\ r # <<>> => (r[1] \notin WHITESPACE /\ r[Len(r)] \notin WHITESPACE)

\* C4: a generator call is made only with evidence; when it raises, ask ends in
\* GENERATION_FAILED and returns the fixed error prefix followed by the failure
\* detail; when it returns, ask ends in GENERATION_OK and returns the response text
\* without its leading and trailing whitespace, or the empty str when the text is
\* missing.
C4_GenerationResult ==
    /\ gen.kind # "none" => retrieved # <<>>
    /\ gen.kind = "raised" =>
          /\ st = "GENERATION_FAILED"
          /\ ret = ERROR_PREFIX \o gen.value
    /\ gen.kind = "returned" =>
          /\ st = "GENERATION_OK"
          /\ IF gen.value = NONE THEN ret = <<>> ELSE IsTrimOf(ret, gen.value)

C4_Witness ==
    /\ st = "GENERATION_FAILED"
    /\ gen.kind = "raised"
    /\ gen.value # <<>>
    /\ Len(ret) > Len(ERROR_PREFIX)

ALLOWED_RUNS ==
    { <<"NOT_CONFIGURED">>,
      <<"CONFIGURED", "RETRIEVING", "NO_EVIDENCE">>,
      <<"CONFIGURED", "RETRIEVING", "EVIDENCE_FOUND", "GENERATION_OK">>,
      <<"CONFIGURED", "RETRIEVING", "EVIDENCE_FOUND", "GENERATION_FAILED">> }

C5_Position ==
    /\ st # "IDLE" =>
          /\ hist # <<>>
          /\ hist[Len(hist)] = st
          /\ \E run \in ALLOWED_RUNS : HasPrefix(run, hist)
    /\ st \in TERMINAL <=> hist \in ALLOWED_RUNS
    /\ genCalls <= 1
    /\ genCalls = 1 <=> st \in {"GENERATION_OK", "GENERATION_FAILED"}
    /\ genCalls = 1 => retrieved # <<>>

C5_Step ==
    /\ genCalls' > genCalls =>
          /\ st = "EVIDENCE_FOUND"
          /\ genCalls = 0
          /\ retrieved # <<>>
          /\ \A i \in DOMAIN retrieved : retrieved[i][3] > 0
    /\ st \in TERMINAL => st' \in {st, "IDLE"}

\* C5: every ask runs along NOT_CONFIGURED, or CONFIGURED, RETRIEVING and then
\* NO_EVIDENCE, or EVIDENCE_FOUND and then exactly one of GENERATION_OK and
\* GENERATION_FAILED; the generator is called at most once per ask, only from
\* EVIDENCE_FOUND with at least one scored document, and after a failed call the ask
\* only returns.
C5_StateMachine == []C5_Position /\ [][C5_Step]_vars

C5_Witness ==
    /\ st = "GENERATION_FAILED"
    /\ genCalls = 1
    /\ hist = <<"CONFIGURED", "RETRIEVING", "EVIDENCE_FOUND", "GENERATION_FAILED">>

\* the tokens of a question: the maximal runs of keyword characters of its
\* lower-cased form; a qualifying token is one of length >= 3 that is no stop-word
Tokens(q) ==
    LET s == lower(q)
    IN  {SubSeq(s, i, j) : <<i, j>> \in
            {r \in (1..Len(s)) \X (1..Len(s)) :
                /\ r[1] <= r[2]
                /\ \A k \in r[1]..r[2] : s[k] \in KEYWORD_CHARS
                /\ (r[1] = 1 \/ s[r[1] - 1] \notin KEYWORD_CHARS)
                /\ (r[2] = Len(s) \/ s[r[2] + 1] \notin KEYWORD_CHARS)}}

QualifyingTokens(q) == {t \in Tokens(q) : Len(t) >= 3 /\ t \notin stop}

\* C6: for a question with at least one qualifying token, _keywords returns a
\* non-empty list in which every term has length >= 3 and none is a stop-word.
C6_KeywordsOfQualifying ==
    (fnIn.op = "_keywords" /\ fnOut # <<>> /\ QualifyingTokens(fnIn.q) # {}) =>
        /\ fnOut[1] # <<>>
        /\ \A k \in DOMAIN fnOut[1] : Len(fnOut[1][k]) >= 3 /\ fnOut[1][k] \notin stop

C6_Witness ==
    /\ fnIn.op = "_keywords"
    /\ fnOut # <<>>
    /\ QualifyingTokens(fnIn.q) # {}
    /\ \E t \in Tokens(fnIn.q) : t \in stop /\ Len(t) >= 3
    /\ \E i \in DOMAIN fnIn.q : fnIn.q[i] \in {UPPER[k] : k \in DOMAIN UPPER}

S_sesion == <<"s","e","s","i","ó","n">>
S_comision == <<"c","o","m","i","s","i","ó","n">>

\* C7: the keyword list _retrieve works with is never empty: for a question without
\* qualifying token (empty, only stop-words, only short tokens) it is the two hint
\* words, and otherwise it is what _keywords extracts from the question.
C7_RetrieveWordsNonEmpty ==
    (fnIn.op = "_retrieve" /\ fnOut # <<>>) =>
        /\ fnOut[1] # <<>>
        /\ \A k \in DOMAIN fnOut[1] : Len(fnOut[1][k]) >= 3 /\ fnOut[1][k] \notin stop
        /\ QualifyingTokens(fnIn.q) = {} => fnOut[1] = <<S_sesion, S_comision>>
        /\ QualifyingTokens(fnIn.q) # {} =>
              {fnOut[1][k] : k \in DOMAIN fnOut[1]} = QualifyingTokens(fnIn.q)

C7_Witness ==
    /\ fnIn.op = "_retrieve"
    /\ fnOut = << <<S_sesion, S_comision>> >>
    /\ \E t \in Tokens(fnIn.q) : t \in stop /\ Len(t) >= 3
    /\ \E t \in Tokens(fnIn.q) : Len(t) < 3

\* the occurrences of w in t that a left-to-right scan counts: each one starts at
\* the first match position at or after the end of the one before
RECURSIVE ScanCount(_, _, _)
ScanCount(P, n, from) ==
    LET Q == {i \in P : i >= from}
    IN  IF Q = {} THEN 0
        ELSE 1 + ScanCount(P, n, (CHOOSE i \in Q : \A j \in Q : i <= j) + n)

Occurrences(t, w) == ScanCount({i \in 1..Len(t) : StartsAt(t, w, i)}, Len(w), 1)

RECURSIVE SumOver(_, _, _)
SumOver(ws, t, k) ==
    IF k > Len(ws) THEN 0
    ELSE (IF Occurrences(t, ws[k]) <= 30 THEN Occurrences(t, ws[k]) ELSE 30)
         + SumOver(ws, t, k + 1)

\* C8: the content score is the sum, over the entries of the keyword list, of
\* min(occurrences of the keyword in the lower-cased text, 30), the occurrences
\* being counted as str.count counts them (left to right, not overlapping); an
\* empty text or an empty keyword list scores 0.
C8_ScoreIsCappedSum ==
    (fnIn.op = "_score_keywords" /\ fnOut # <<>>) =>
        /\ fnOut[1] = SumOver(fnIn.words, lower(fnIn.text), 1)
        /\ (fnIn.words = <<>> \/ fnIn.text = <<>>) => fnOut[1] = 0

C8_Witness ==
    /\ fnIn.op = "_score_keywords"
    /\ fnOut = <<32>>
    /\ Len(fnIn.words) = 2
    /\ Occurrences(lower(fnIn.text), fnIn.words[1]) = 32
    /\ Occurrences(lower(fnIn.text), fnIn.words[2]) = 2

\* C9: every document of the results has content score > 0: its file was readable,
\* its text is not empty and holds at least one occurrence of a keyword.
C9_ResultsScorePositive ==
    \A i \in DOMAIN retrieved :
        LET d == retrieved[i][1]
        IN  /\ retrieved[i][3] > 0
            /\ \E c \in DOMAIN candidates : candidates[c] = d
            /\ files[d.path] # UNREADABLE
            /\ files[d.path] # <<>>
            /\ \E k \in DOMAIN words : Contains(lower(files[d.path]), words[k])

C9_Witness ==
    /\ AfterRetrieval
    /\ Len(retrieved) = 1
    /\ \E c \in DOMAIN candidates : files[candidates[c].path] = UNREADABLE
    /\ \E c \in DOMAIN candidates :
          /\ files[candidates[c].path] \notin {UNREADABLE, <<>>}
          /\ candidates[c] # retrieved[1][1]

DocIndex(d) == CHOOSE i \in DOMAIN docs : docs[i] = d
MetaScore(d) == path_score(d, words, _normalize(question))

ScoreDescending ==
    \A i, j \in DOMAIN retrieved : i < j => retrieved[i][3] >= retrieved[j][3]

\* C10 as claimed: results are in descending content score, and results of equal
\* content score are in catalog order.
C10_TiesInCatalogOrder ==
    /\ ScoreDescending
    /\ \A i, j \in DOMAIN retrieved :
          (i < j /\ retrieved[i][3] = retrieved[j][3]) =>
              DocIndex(retrieved[i][1]) < DocIndex(retrieved[j][1])

\* C10, amended: results are in descending content score, and results of equal
\* content score are in the order of the phase-1 candidate list: higher metadata
\* score first, catalog order among equal metadata scores.
C10_TiesInCandidateOrder ==
    /\ ScoreDescending
    /\ \A i, j \in DOMAIN retrieved :
          (i < j /\ retrieved[i][3] = retrieved[j][3]) =>
              \/ MetaScore(retrieved[i][1]) > MetaScore(retrieved[j][1])
              \/ /\ MetaScore(retrieved[i][1]) = MetaScore(retrieved[j][1])
                 /\ DocIndex(retrieved[i][1]) < DocIndex(retrieved[j][1])

C10_Witness ==
    /\ AfterRetrieval
    /\ \E i, j \in DOMAIN retrieved :
          /\ i < j
          /\ retrieved[i][3] = retrieved[j][3]
          /\ DocIndex(retrieved[i][1]) > DocIndex(retrieved[j][1])
          /\ MetaScore(retrieved[i][1]) > MetaScore(retrieved[j][1])

\* the call of _extract_snippets has returned
SnippetsReturned == fnIn.op = "_extract_snippets" /\ fnOut # <<>>

NotBlank(sn) == \E i \in DOMAIN sn : sn[i] \notin WHITESPACE

\* a keyword of the list (of length >= 3) occurs in the lower-cased text
KeywordOccurs(text, ws) ==
    \E k \in DOMAIN ws : Len(ws[k]) >= 3 /\ Contains(lower(text), ws[k])

WithinWindow(sn, ws, radius) ==
    \E k \in DOMAIN ws : Len(ws[k]) >= 3 /\ Len(sn) <= 2 * radius + Len(ws[k])

C11_WindowWitness ==
    /\ SnippetsReturned
    /\ KeywordOccurs(fnIn.text, fnIn.words)
    /\ fnIn.radius >= 1
    /\ Len(fnOut[1]) = 2
    /\ Len(fnOut[1][1]) = 2 * fnIn.radius + 3

C11_HeadCutWitness ==
    /\ SnippetsReturned
    /\ Len(fnIn.text) > 8000
    /\ Len(fnOut[1]) = 1
    /\ Len(fnOut[1][1]) = 8000

Range(f) == {f[i] : i \in DOMAIN f}

\* the hits (position, window) that the call under way has captured
CapturedHits ==
    collect_hits(fnIn.text, fnIn.words, 1, <<>>, fnIn.max_snippets, fnIn.radius)

\* those of them that are windows around occurrences of the keyword w
CapturedOf(w) ==
    {h \in Range(CapturedHits) :
        /\ StartsAt(lower(fnIn.text), w, h[1] + 1)
        /\ h[2] = strip(replace_newlines(slice(fnIn.text, Max(0, h[1] - fnIn.radius),
                                               h[1] + Len(w) + fnIn.radius)))}

\* C12 (as stated): of two captured windows around occurrences of the same keyword,
\* one's text a proper substring of the other's, the returned list holds the
\* superset and not the subset, whichever occurrence comes first (stated for the
\* calls in which max_snippets does not cut the list).
C12_OnlySupersetKept ==
    (SnippetsReturned /\ Len(CapturedHits) <= fnIn.max_snippets) =>
        \A k \in DOMAIN fnIn.words :
            \A a, b \in CapturedOf(fnIn.words[k]) :
                (a[2] # <<>> /\ a[2] # b[2] /\ Contains(b[2], a[2])) =>
                    /\ b[2] \in Range(fnOut[1])
                    /\ a[2] \notin Range(fnOut[1])

\* C17: in the returned list no snippet is a substring of a snippet kept before it
\* (so no two snippets are equal).
C17_NoLaterSubstring ==
    SnippetsReturned =>
        \A i, j \in DOMAIN fnOut[1] : i < j => ~Contains(fnOut[1][i], fnOut[1][j])

\* of three captured windows the second was dropped and the third kept
C17_Witness ==
    /\ SnippetsReturned
    /\ Len(CapturedHits) = 3
    /\ Len(fnOut[1]) = 2
    /\ \E h \in Range(CapturedHits) :
          /\ h[2] # <<>>
          /\ Contains(fnOut[1][1], h[2])
          /\ h[2] # fnOut[1][2]
          /\ h[1] > 0

\* the catalog holds one document, of a commission the question names, whose file
\* is readable and holds a keyword of the question
OneDocOfNamedCommission ==
    /\ Len(docs) = 1
    /\ question # NONE
    /\ Contains(question, docs[1].commission)
    /\ files[docs[1].path] # UNREADABLE
    /\ \E k \in DOMAIN _keywords(question) :
          Contains(lower(files[docs[1].path]), _keywords(question)[k])

\* sn is the window of radius 280 around an occurrence of the keyword w in text
IsWindowOf(sn, text, w) ==
    \E pos \in Range(finditer(lower(text), w)) :
        sn = strip(replace_newlines(slice(text, Max(0, pos - 280), pos + Len(w) + 280)))

Triples(rs) == [i \in DOMAIN rs |-> <<rs[i][1].sid, rs[i][1].commission, rs[i][3]>>]

\* C14 (as stated): the prompt determines the triples that were assembled: whatever
\* way the header lines are parsed, no question and retrieved list with other
\* triples builds the same prompt.
C14_PromptRoundTrip ==
    (fnIn.op = "build_prompt" /\ fnOut # <<>>) =>
        \A q \in PR_QUESTIONS : \A rs \in PR_RESULTS :
            build_prompt(q, rs) = fnOut[1] => Triples(rs) = Triples(fnIn.retrieved)

\* the commission names of the catalog whose lower-cased form is a substring of the
\* trimmed, lower-cased question
MatchingCommissions ==
    {c \in {docs[i].commission : i \in DOMAIN docs} :
        c # <<>> /\ Contains(lower(strip(question)), lower(c))}

\* C15: the commission filter of a retrieval is one of the catalog's commission
\* names whose lower-cased form is a substring of the trimmed, lower-cased
\* question when there is one, and no filter otherwise; without a filter the whole
\* catalog is the pool (a document is left out of the candidates only by its
\* metadata score), with a filter the candidates are of that commission.
C15_FilterIsMatchingCommission ==
    AfterRetrieval =>
        /\ MatchingCommissions # {} => commission_filter \in MatchingCommissions
        /\ MatchingCommissions = {} => commission_filter = NONE
        /\ commission_filter # NONE =>
              /\ \E i \in DOMAIN docs : docs[i].commission = commission_filter
              /\ \A c \in DOMAIN candidates : candidates[c].commission = commission_filter
        /\ commission_filter = NONE =>
              \A i \in DOMAIN docs :
                  \/ \E c \in DOMAIN candidates : candidates[c] = docs[i]
                  \/ /\ MetaScore(docs[i]) = 0
                     /\ \E c \in DOMAIN candidates : MetaScore(candidates[c]) > 0

\* two commissions of the catalog are named in the question; the second is the filter
C15_Witness ==
    /\ AfterRetrieval
    /\ MatchingCommissions = {S_Agr, S_edu}
    /\ commission_filter = S_edu
    /\ Len(candidates) = 1

\* no commission is named: the candidates come from both commissions
C15_NoFilterWitness ==
    /\ AfterRetrieval
    /\ question # <<>>
    /\ commission_filter = NONE
    /\ {candidates[c].commission : c \in DOMAIN candidates} = {S_Agr, S_edu}

\* C16 (as stated): the keywords returned by _keywords are an ordered set: no term
\* occurs in the list more than once.
C16_KeywordsDistinct ==
    (fnIn.op = "_keywords" /\ fnOut # <<>>) =>
        \A i, j \in DOMAIN fnOut[1] : i < j => fnOut[1][i] # fnOut[1][j]

\* the entries of the keyword list ws that are substrings of the lower-cased
\* string "group commission sid" of d
PathKeywordHits(d, ws) ==
    Cardinality({k \in DOMAIN ws :
        Contains(lower(d.group \o <<" ">> \o d.commission \o <<" ">> \o d.sid), ws[k])})

\* qn holds a run of 2 or more digits, with no letter, digit or underscore next to
\* it, that is a substring of sid
StandAloneNumberIn(qn, sid) ==
    \E i \in 1..Len(qn) : \E j \in i..Len(qn) :
        /\ j - i + 1 >= 2
        /\ \A k \in i..j : qn[k] \in {"0","1","2","3","4","5","6","7","8","9"}
        /\ i = 1 \/ qn[i - 1] \notin WORD_CHARS
        /\ j = Len(qn) \/ qn[j + 1] \notin WORD_CHARS
        /\ Contains(sid, SubSeq(qn, i, j))

\* C18: the phase-1 score of a document is 3 for every entry of the keyword list
\* that is a substring of its lower-cased "group commission sid", plus 8, once,
\* exactly when the normalized question holds a stand-alone number of 2 or more
\* digits that is a substring of its sid.
C18_MetadataScore ==
    (fnIn.op = "path_score" /\ fnOut # <<>>) =>
        fnOut[1] = 3 * PathKeywordHits(fnIn.d, retrieve_words(fnIn.q))
                   + (IF StandAloneNumberIn(lower(strip(fnIn.q)), fnIn.d.sid) THEN 8 ELSE 0)

\* one keyword of the question is in the path and two of its numbers are in the sid
C18_Witness ==
    /\ fnIn.op = "path_score"
    /\ fnIn.q = <<"1","1","7"," ","1","7">>
    /\ fnIn.d.sid = <<"1","1","7">>
    /\ fnOut = <<11>>

\* the phase-1 score of d for the question q, as C18 states it
MetadataScore(d, q) ==
    3 * PathKeywordHits(d, retrieve_words(q))
    + (IF StandAloneNumberIn(lower(strip(q)), d.sid) THEN 8 ELSE 0)

\* in a list of documents with the scores sc, entry a is ranked before entry b:
\* higher score first, the order of the list among equal scores
RankedBefore(sc, a, b) == sc[a] > sc[b] \/ (sc[a] = sc[b] /\ a < b)

\* C19: the candidate list has at most 60 documents.  When some pool document has
\* a metadata score > 0, the candidates are the pool documents of score > 0 in
\* descending score, ties in catalog order, cut to the first 60; when none has,
\* they are the first 60 documents of the pool in catalog order.
C19_Shortlist ==
    (fnIn.op = "candidates" /\ fnOut # <<>>) =>
        LET pool == fnOut[1].pool
            cands == fnOut[1].candidates
            sc == [i \in DOMAIN pool |-> MetadataScore(pool[i], fnIn.q)]
            positive == {i \in DOMAIN pool : sc[i] > 0}
            \* the place in the pool of the c-th candidate
            at == [c \in DOMAIN cands |-> CHOOSE i \in DOMAIN pool : pool[i] = cands[c]]
        IN  /\ Len(cands) <= 60
            /\ \A c \in DOMAIN cands : \E i \in DOMAIN pool : pool[i] = cands[c]
            /\ positive = {} =>
                  cands = SubSeq(pool, 1, IF Len(pool) < 60 THEN Len(pool) ELSE 60)
            /\ positive # {} =>
                  /\ Len(cands) = (IF Cardinality(positive) < 60
                                   THEN Cardinality(positive) ELSE 60)
                  /\ \A c \in DOMAIN cands : at[c] \in positive
                  /\ \A c, e \in DOMAIN cands : c < e => RankedBefore(sc, at[c], at[e])
                  /\ \A i \in positive \ {at[c] : c \in DOMAIN cands} :
                        \A c \in DOMAIN cands : RankedBefore(sc, at[c], i)

\* 61 pool documents score above 0, one of them higher than the others: the last
\* in catalog order is cut
C19_Witness ==
    /\ fnIn.op = "candidates"
    /\ fnOut # <<>>
    /\ fnIn.q = <<"s","e","n"," ","1","7">>
    /\ Len(fnOut[1].pool) = 62
    /\ Len(fnOut[1].candidates) = 60
    /\ fnOut[1].candidates[1].sid = <<"1","7">>
    /\ fnOut[1].candidates[60].sid = <<"6","1">>

\* no pool document scores above 0: the first 60 of 61 are the candidates
C19_FallbackWitness ==
    /\ fnIn.op = "candidates"
    /\ fnOut # <<>>
    /\ fnIn.q = <<"q","u","e">>
    /\ Len(fnOut[1].pool) = 61
    /\ Len(fnOut[1].candidates) = 60

\* the places in the catalog of the documents of the pool of the retrieval under way
PoolPlaces ==
    {i \in DOMAIN docs : commission_filter = NONE \/ docs[i].commission = commission_filter}

\* C20: when some pool document has a metadata score > 0, a pool document of
\* metadata score 0 is not a candidate: its text is not read (one read is made per
\* candidate) and it is not in the results, whatever its text holds and however
\* short the candidate list is.
C20_ZeroMetadataDropped ==
    (AfterRetrieval /\ \E i \in PoolPlaces : MetadataScore(docs[i], question) > 0) =>
        /\ reads = Len(candidates)
        /\ \A i \in PoolPlaces :
              MetadataScore(docs[i], question) = 0 =>
                  /\ \A c \in DOMAIN candidates : candidates[c] # docs[i]
                  /\ \A r \in DOMAIN retrieved : retrieved[r][1] # docs[i]

\* a pool document whose text holds a keyword of the question is dropped, the one
\* candidate has no evidence
C20_Witness ==
    /\ st = "NO_EVIDENCE"
    /\ Len(candidates) = 1
    /\ \E i \in PoolPlaces :
          /\ MetadataScore(docs[i], question) = 0
          /\ files[docs[i].path] # UNREADABLE
          /\ \E k \in DOMAIN words : Contains(lower(files[docs[i].path]), words[k])

\* the call of _retrieve has returned
RetrieveReturned == fnIn.op = "_retrieve" /\ fnOut # <<>>

\* the content score of a candidate: the capped keyword count of the text read from
\* its file, 0 when the file cannot be read
ContentScore(fs, d, ws) ==
    IF fs[d.path] = UNREADABLE THEN 0 ELSE SumOver(ws, lower(fs[d.path]), 1)

\* C21: _retrieve returns exactly min(k_docs, number of candidates of content
\* score > 0) documents, each of them a candidate, and no candidate left out of the
\* results has a strictly higher content score than a candidate included in them.
C21_TopK ==
    RetrieveReturned =>
        LET r == fnOut[1].retrieval
            cands == r.candidates
            content == [c \in DOMAIN cands |-> ContentScore(fnIn.files, cands[c], r.words)]
            positive == {c \in DOMAIN cands : content[c] > 0}
            included == {c \in DOMAIN cands :
                            \E i \in DOMAIN r.results : r.results[i][1] = cands[c]}
        IN  /\ Len(r.results) = (IF fnIn.k_docs < Cardinality(positive)
                                 THEN fnIn.k_docs ELSE Cardinality(positive))
            /\ Cardinality(included) = Len(r.results)
            /\ \A out \in DOMAIN cands \ included :
                  \A c \in included : content[out] <= content[c]

\* seven candidates score above 0 and the default six are kept; the one left out
\* scores above 0 and comes before a kept one in the candidate list
C21_Witness ==
    /\ RetrieveReturned
    /\ fnIn.k_docs = 6
    /\ LET r == fnOut[1].retrieval
       IN  /\ Len(r.candidates) = 7
           /\ Len(r.results) = 6
           /\ \A c \in DOMAIN r.candidates :
                 ContentScore(fnIn.files, r.candidates[c], r.words) > 0
           /\ \E c \in 1..6 : \A i \in DOMAIN r.results : r.results[i][1] # r.candidates[c]

\* C22: _extract_snippets captures at most max_snippets * 3 keyword hits in total
\* over all the keywords and returns at most max_snippets snippets (18 hits and 6
\* snippets with the default max_snippets); for an empty text it returns the empty
\* list.
C22_HitsAndSnippetsCapped ==
    SnippetsReturned =>
        /\ Len(CapturedHits) <= fnIn.max_snippets * 3
        /\ Len(fnOut[1]) <= fnIn.max_snippets
        /\ fnIn.max_snippets = 6 => (Len(CapturedHits) <= 18 /\ Len(fnOut[1]) <= 6)
        /\ fnIn.text = <<>> => fnOut[1] = <<>>

\* the keyword occurs more than 18 times: 18 hits are captured and 6 of their
\* windows, all different, are returned
C22_Witness ==
    /\ SnippetsReturned
    /\ fnIn.max_snippets = 6
    /\ Occurrences(lower(fnIn.text), fnIn.words[1]) > 18
    /\ Len(CapturedHits) = 18
    /\ Len(fnOut[1]) = 6
    /\ \A i, j \in DOMAIN fnOut[1] : i # j => fnOut[1][i] # fnOut[1][j]

\* C23: every document in the results of _retrieve carries at least one snippet,
\* and none of its snippets is empty.
C23_ResultsHaveSnippets ==
    RetrieveReturned =>
        \A i \in DOMAIN fnOut[1].retrieval.results :
            LET snippets == fnOut[1].retrieval.results[i][2]
            IN  /\ snippets # <<>>
                /\ \A j \in DOMAIN snippets : snippets[j] # <<>>

\* C24: when a commission filter E is detected, every document the retrieval works
\* on is of commission E: the candidates, which are the documents of the pool that
\* phase 1 kept and the only documents phase 2 reads, the documents of the results,
\* and the names of the searched-commissions list.
C24_NarrowedToFilter ==
    (AfterRetrieval /\ commission_filter # NONE) =>
        /\ \A c \in DOMAIN candidates : candidates[c].commission = commission_filter
        /\ reads = Len(candidates)
        /\ \A r \in DOMAIN retrieved : retrieved[r][1].commission = commission_filter
        /\ \A n \in DOMAIN searched_commissions :
              searched_commissions[n] = commission_filter

\* the question names a commission and a number; a document of another commission
\* has that number in its file name and a keyword in its text, and is left out
C24_Witness ==
    /\ AfterRetrieval
    /\ commission_filter = S_Agr
    /\ retrieved # <<>>
    /\ searched_commissions = <<S_Agr>>
    /\ \E i \in DOMAIN docs :
          /\ docs[i].commission = S_edu
          /\ MetadataScore(docs[i], question) > 0
          /\ files[docs[i].path] # UNREADABLE
          /\ \E k \in DOMAIN words : Contains(lower(files[docs[i].path]), words[k])

\* C25: a content root that is missing or cannot be read gives an empty catalog and
\* construction succeeds; an ask on such an agent, when it is configured, raises
\* nothing and ends in NO_EVIDENCE with the no-evidence message showing the
\* placeholder for "no commissions searched", without any document read or
\* generator call.
C25_MissingRootNoEvidence ==
    repo # "dir" =>
        /\ docs = <<>>
        /\ ~raised
        /\ st # "RAISED"
        /\ (ready /\ st \notin {"IDLE", "RETRIEVING"}) =>
              /\ st = "NO_EVIDENCE"
              /\ ret = NO_EVIDENCE_HEAD \o <<"N","/","A">> \o NO_EVIDENCE_TAIL
              /\ searched_commissions = <<>>
              /\ reads = 0
              /\ genCalls = 0
              /\ gen = NO_CALL

C25_Witness ==
    /\ repo = "missing"
    /\ ready
    /\ st = "NO_EVIDENCE"
    /\ question = S_Agr \o SPACE \o <<"1","7","3">>

C25_UnreadableWitness ==
    /\ repo = "unreadable"
    /\ ready
    /\ st = "NO_EVIDENCE"
    /\ question = <<>>

\* the paths of the catalog are pairwise distinct
PathsDistinct == \A i, j \in DOMAIN docs : docs[i].path = docs[j].path => i = j

SearchedNames == {candidates[i].commission : i \in DOMAIN candidates}

\* the number of searched names that sort before the name m
NamesBefore(m) == Cardinality({x \in SearchedNames : str_lt(x, m)})

\* the first 12 searched names in sorted order
ShownNames ==
    [k \in 1..(IF Cardinality(SearchedNames) < 12 THEN Cardinality(SearchedNames) ELSE 12)
        |-> CHOOSE m \in SearchedNames : NamesBefore(m) = k - 1]

\* C27: the no-evidence message lists the distinct commissions of the phase-1
\* candidates, in sorted order, cut to the first 12 names, joined by ", ": never
\* more than 12 names, never a commission without a candidate; when there is no
\* candidate it shows the placeholder "N/A".
C27_NoEvidenceListing ==
    st = "NO_EVIDENCE" =>
        /\ IsNoEvidenceMessage(ret)
        /\ Len(ShownNames) <= 12
        /\ \A k \in DOMAIN ShownNames :
              \E i \in DOMAIN candidates : candidates[i].commission = ShownNames[k]
        /\ SearchedNames # {} => ListedPart(ret) = join(<<",", " ">>, ShownNames)
        /\ SearchedNames = {} => ListedPart(ret) = <<"N","/","A">>

\* 14 commissions were searched: the message shows 12 of them, c10 after c1 and
\* before c2, and leaves c8 and c9 out
C27_Witness ==
    /\ st = "NO_EVIDENCE"
    /\ Cardinality(SearchedNames) = 14
    /\ Len(ShownNames) = 12
    /\ ShownNames[2] = <<"c","1","0">>
    /\ ShownNames[12] = <<"c","7">>
    /\ ~Contains(ListedPart(ret), <<"c","8">>)
    /\ candidates[8].commission = <<"c","8">>

\* no commission was searched: the placeholder is shown
C27_PlaceholderWitness ==
    /\ st = "NO_EVIDENCE"
    /\ candidates = <<>>
    /\ ListedPart(ret) = <<"N","/","A">>

\* the prompt of the ask under way has been built
PromptBuilt == st \in {"EVIDENCE_FOUND", "GENERATION_OK", "GENERATION_FAILED"}

\* one bullet line for each of the first 6 snippets, from the k-th on
RECURSIVE BulletLines(_, _)
BulletLines(snippets, k) ==
    IF k > Len(snippets) \/ k > 6 THEN <<>>
    ELSE <<"\n", "-", " ">> \o snippets[k] \o BulletLines(snippets, k + 1)

\* the header line of a ScoredDocument
HeaderLine(r) ==
    HDR_DOCUMENTO \o r[1].sid \o HDR_COMISION \o r[1].commission \o HDR_GRUPO
    \o r[1].group \o HDR_SCORE \o str_int(r[3])

\* the source blocks of the documents rs[k..], separated by blank lines
RECURSIVE SourceBlocks(_, _)
SourceBlocks(rs, k) ==
    IF k > Len(rs) THEN <<>>
    ELSE (IF k > 1 THEN <<"\n", "\n">> ELSE <<>>)
         \o HeaderLine(rs[k]) \o BulletLines(rs[k][2], 1) \o SourceBlocks(rs, k + 1)

OneLine(s) == \A i \in DOMAIN s : s[i] # "\n"

\* C28: the prompt handed to the generator is the literal question under its
\* banner, then the sources section, then the fixed instruction block; the sources
\* section holds exactly one block per document of the retrieval result, in ranking
\* order, each block one header line followed by one bullet line for each of at
\* most 6 snippets of that document, and nothing else.
C28_PromptBlocks ==
    PromptBuilt =>
        /\ prompt = PROMPT_HEAD \o question \o PROMPT_SOURCES
                    \o SourceBlocks(retrieved, 1) \o PROMPT_INSTRUCTIONS
        /\ \A i \in DOMAIN retrieved :
              /\ OneLine(HeaderLine(retrieved[i]))
              /\ \A j \in DOMAIN retrieved[i][2] : OneLine(retrieved[i][2][j])

\* the call of search_texts has returned
SearchReturned == fnIn.op = "search_texts" /\ fnOut # <<>>

\* the place in the scan of the file of a hit
ScanPlace(h) == CHOOSE i \in DOMAIN fnIn.scan : fnIn.scan[i].file = h.file

\* the query has a word of 3 or more characters
HasLongWord(q) ==
    \E i \in 1..(Len(q) - 2) : \A j \in i..(i + 2) : q[j] \notin WHITESPACE

\* C29: search_texts returns at most top_k hits; every hit has score > 0; the hits
\* are in non-increasing score order, hits of equal score in scan order; the
\* snippet of a hit is a prefix, of at most 1400 characters, of the text of its
\* file; a query with no word of 3 or more characters returns the empty list.
C29_SearchTexts ==
    SearchReturned =>
        LET hits == fnOut[1]
        IN  /\ Len(hits) <= fnIn.top_k
            /\ \A i \in DOMAIN hits :
                  /\ hits[i].score > 0
                  /\ \E k \in DOMAIN fnIn.scan : fnIn.scan[k].file = hits[i].file
                  /\ fnIn.scan[ScanPlace(hits[i])].text # UNREADABLE
                  /\ Len(hits[i].snippet) <= 1400
                  /\ HasPrefix(fnIn.scan[ScanPlace(hits[i])].text, hits[i].snippet)
            /\ \A i, j \in DOMAIN hits :
                  i < j =>
                      \/ hits[i].score > hits[j].score
                      \/ /\ hits[i].score = hits[j].score
                         /\ ScanPlace(hits[i]) < ScanPlace(hits[j])
            /\ ~HasLongWord(fnIn.query) => hits = <<>>

\* more files score above 0 than the 6 hits kept; two kept hits have equal scores
\* and one has a snippet of 1400 characters cut from a longer text
C29_Witness ==
    /\ SearchReturned
    /\ fnIn.top_k = 6
    /\ Len(fnOut[1]) = 6
    /\ Cardinality({k \in DOMAIN fnIn.scan :
                       /\ fnIn.scan[k].text # UNREADABLE
                       /\ Contains(lower(fnIn.scan[k].text), S_agr)}) > 6
    /\ \E i \in 1..5 : fnOut[1][i].score = fnOut[1][i + 1].score
    /\ \E i \in 1..6 :
          /\ Len(fnOut[1][i].snippet) = 1400
          /\ Len(fnIn.scan[ScanPlace(fnOut[1][i])].text) > 1400

\* a query of short words only: nothing is returned though files hold its words
C29_ShortWordsWitness ==
    /\ SearchReturned
    /\ fnIn.query = <<"a","b"," ","1","7">>
    /\ fnOut[1] = <<>>
    /\ \E k \in DOMAIN fnIn.scan :
          fnIn.scan[k].text # UNREADABLE /\ Contains(fnIn.scan[k].text, <<"1","7">>)

\* the response of get_kom_profile before any save: no profile exists, and the
\* profile returned is the empty default
IsDefaultResponse(r, chamber, pid) ==
    /\ r.success
    /\ ~r.exists
    /\ r.profile = [id |-> pid, chamber |-> chamber, tags |-> <<>>, notes |-> <<>>,
                    notas |-> <<>>, links |-> <<>>, updated_at |-> NONE]

\* the step is a save that succeeded on the file that get reads for (chamber, pid)
SavedFor(chamber, pid) ==
    /\ fnIn'.op = "save_kom_profile"
    /\ fnOut'[1].success
    /\ kom_profile_path(fnIn'.chamber, fnIn'.pid) = kom_profile_path(chamber, pid)

\* C30: the KOM profile store round-trips over any sequence of operations.  At the
\* start get returns exists = false and the empty default profile for every key.
\* A step that is a successful save for a key makes get of that key return
\* exists = true and the saved payload, with id and chamber those of the save;
\* every other step (a get, a save for another key, a save that failed) leaves
\* what get returns for the key as it was.
C30_KomRoundTrip ==
    /\ \A c \in KOM_CHAMBERS, p \in KOM_PIDS :
          IsDefaultResponse(get_kom_profile(files, c, p), c, p)
    /\ [][\A c \in KOM_CHAMBERS, p \in KOM_PIDS :
             IF SavedFor(c, p)
             THEN LET r == get_kom_profile(files', c, p)
                  IN  /\ r.success
                      /\ r.exists
                      /\ r.profile.id = fnIn'.pid
                      /\ r.profile.chamber = fnIn'.chamber
                      /\ \A k \in DOMAIN fnIn'.payload \ {"id", "chamber", "updated_at"} :
                            r.profile[k] = fnIn'.payload[k]
             ELSE get_kom_profile(files', c, p) = get_kom_profile(files, c, p)]_vars

====
